---- MODULE Spec2Model ----
(***************************************************************************)
(* Server-side opnum dispatchers of go-msrpc (generated server.go files).   *)
(*                                                                         *)
(* Every XServerHandle(ctx, o, opNum, r) is a switch on opNum whose arms    *)
(* all have the same shape:                                                 *)
(*     in := &Request{}                                                     *)
(*     if err := in.UnmarshalNDR(ctx, r); err != nil { return nil, err }    *)
(*     resp, err := o.Method(ctx, in)                                       *)
(*     return resp.xxx_ToOp(ctx), err                                       *)
(* DCOM dispatchers first hand every opnum below their first own opnum to   *)
(* the handler of the base interface.  A call that matches no arm returns   *)
(* (nil, nil).                                                              *)
(*                                                                         *)
(* The model runs each call as a sequence of steps in a frame owned by the  *)
(* goroutine serving it: Call (up to the selected arm), Unmarshal, Invoke,  *)
(* Return (or Base), Finish.  The frame also records the events of the call *)
(* (trace), which is what the properties below are stated over; last keeps  *)
(* the selection of the previous call where a property compares two calls.  *)
(***************************************************************************)
EXTENDS Integers, Sequences, FiniteSets, TLC

VARIABLES
    conn,    \* the server handles registered on the connection
    frames,  \* goroutine -> frame of the dispatch call it is serving
    last     \* history: what the most recently finished call selected

vars == <<conn, frames, last>>

(***************************************************************************)
(* Values.  A pointer is Nil or a one-element sequence holding the pointee; *)
(* an error is the string NoError (the nil error) or the error's text.      *)
(***************************************************************************)
Nil == << >>

NoError == "nil"

Ptr(x) == <<x>>

\* How far below 0 and beyond the last case of a dispatcher the opnums of the
\* modelled calls reach.
OpSlack == 1

\* What the reader can hold at the start of a call's argument block.
ReaderData == {"args", "malformed", "truncated"}

\* ndr.Reader positioned at the start of the argument block.
NewReader(data) == [data |-> data, pos |-> 0]

\* The errors and status codes a user-supplied handler may return.
HandlerErrors == {NoError, "handler failed", "access denied"}

StatusCodes == {0, 5}

(***************************************************************************)
(* What a dispatcher does with an opnum: serve it with one of its own arms, *)
(* hand it to the base interface's handler, or fall out of the switch.      *)
(***************************************************************************)
Serve(req, method) ==
    [kind |-> "own", req |-> req, method |-> method, base |-> "-"]

Delegate(base) ==
    [kind |-> "base", req |-> "-", method |-> "-", base |-> base]

ReturnNilNil ==
    [kind |-> "nil", req |-> "-", method |-> "-", base |-> "-"]

NoRoute ==
    [kind |-> "-", req |-> "-", method |-> "-", base |-> "-"]

(***************************************************************************)
(* The interfaces and their dispatchers, arm by arm as in the source.       *)
(***************************************************************************)
\* type WindowsShutdownServer interface: the methods the interface declares itself, in
\* declaration order, each with the opnum its documentation states (Nil: none).
WindowsShutdownServer ==
    << [method |-> "InitiateShutdown", req |-> "InitiateShutdownRequest", resp |-> "InitiateShutdownResponse", doc |-> Nil],
       [method |-> "AbortShutdown", req |-> "AbortShutdownRequest", resp |-> "AbortShutdownResponse", doc |-> Nil] >>

\* func WindowsShutdownServerHandle(ctx, o, opNum, r): the arm the switch selects.
WindowsShutdownServerHandle(o, opNum, r) ==
    CASE opNum = 0 -> Serve("InitiateShutdownRequest", "InitiateShutdown")
      [] opNum = 1 -> Serve("AbortShutdownRequest", "AbortShutdown")
      [] OTHER -> ReturnNilNil

\* type NspiServer interface: the methods the interface declares itself, in
\* declaration order, each with the opnum its documentation states (Nil: none).
NspiServer ==
    << [method |-> "Bind", req |-> "BindRequest", resp |-> "BindResponse", doc |-> Nil],
       [method |-> "Unbind", req |-> "UnbindRequest", resp |-> "UnbindResponse", doc |-> Nil],
       [method |-> "UpdateStat", req |-> "UpdateStatRequest", resp |-> "UpdateStatResponse", doc |-> Nil],
       [method |-> "QueryRows", req |-> "QueryRowsRequest", resp |-> "QueryRowsResponse", doc |-> Nil],
       [method |-> "SeekEntries", req |-> "SeekEntriesRequest", resp |-> "SeekEntriesResponse", doc |-> Nil],
       [method |-> "GetMatches", req |-> "GetMatchesRequest", resp |-> "GetMatchesResponse", doc |-> Nil],
       [method |-> "ResortRestriction", req |-> "ResortRestrictionRequest", resp |-> "ResortRestrictionResponse", doc |-> Nil],
       [method |-> "DNToMID", req |-> "DNToMIDRequest", resp |-> "DNToMIDResponse", doc |-> Nil],
       [method |-> "GetPropertyList", req |-> "GetPropertyListRequest", resp |-> "GetPropertyListResponse", doc |-> Nil],
       [method |-> "GetProperties", req |-> "GetPropertiesRequest", resp |-> "GetPropertiesResponse", doc |-> Nil],
       [method |-> "CompareMIDs", req |-> "CompareMIDsRequest", resp |-> "CompareMIDsResponse", doc |-> Nil],
       [method |-> "ModifyProperties", req |-> "ModifyPropertiesRequest", resp |-> "ModifyPropertiesResponse", doc |-> Nil],
       [method |-> "GetSpecialTable", req |-> "GetSpecialTableRequest", resp |-> "GetSpecialTableResponse", doc |-> Nil],
       [method |-> "GetTemplateInfo", req |-> "GetTemplateInfoRequest", resp |-> "GetTemplateInfoResponse", doc |-> Nil],
       [method |-> "ModifyLinkAttribute", req |-> "ModifyLinkAttributeRequest", resp |-> "ModifyLinkAttributeResponse", doc |-> Nil],
       [method |-> "QueryColumns", req |-> "QueryColumnsRequest", resp |-> "QueryColumnsResponse", doc |-> Nil],
       [method |-> "GetNamesFromIDs", req |-> "GetNamesFromIDsRequest", resp |-> "GetNamesFromIDsResponse", doc |-> Nil],
       [method |-> "GetIDsFromNames", req |-> "GetIDsFromNamesRequest", resp |-> "GetIDsFromNamesResponse", doc |-> Nil],
       [method |-> "ResolveNames", req |-> "ResolveNamesRequest", resp |-> "ResolveNamesResponse", doc |-> Nil],
       [method |-> "ResolveNamesW", req |-> "ResolveNamesWRequest", resp |-> "ResolveNamesWResponse", doc |-> Nil] >>

\* NspiServerHandle with an arm serving the reserved opnum 15 with the method that
\* follows it.
NspiServerHandle_Opnum15Served(o, opNum, r) ==
    CASE opNum = 0 -> Serve("BindRequest", "Bind")
      [] opNum = 1 -> Serve("UnbindRequest", "Unbind")
      [] opNum = 2 -> Serve("UpdateStatRequest", "UpdateStat")
      [] opNum = 3 -> Serve("QueryRowsRequest", "QueryRows")
      [] opNum = 4 -> Serve("SeekEntriesRequest", "SeekEntries")
      [] opNum = 5 -> Serve("GetMatchesRequest", "GetMatches")
      [] opNum = 6 -> Serve("ResortRestrictionRequest", "ResortRestriction")
      [] opNum = 7 -> Serve("DNToMIDRequest", "DNToMID")
      [] opNum = 8 -> Serve("GetPropertyListRequest", "GetPropertyList")
      [] opNum = 9 -> Serve("GetPropertiesRequest", "GetProperties")
      [] opNum = 10 -> Serve("CompareMIDsRequest", "CompareMIDs")
      [] opNum = 11 -> Serve("ModifyPropertiesRequest", "ModifyProperties")
      [] opNum = 12 -> Serve("GetSpecialTableRequest", "GetSpecialTable")
      [] opNum = 13 -> Serve("GetTemplateInfoRequest", "GetTemplateInfo")
      [] opNum = 14 -> Serve("ModifyLinkAttributeRequest", "ModifyLinkAttribute")
      [] opNum = 15 -> Serve("QueryColumnsRequest", "QueryColumns")
      [] opNum = 16 -> Serve("QueryColumnsRequest", "QueryColumns")
      [] opNum = 17 -> Serve("GetNamesFromIDsRequest", "GetNamesFromIDs")
      [] opNum = 18 -> Serve("GetIDsFromNamesRequest", "GetIDsFromNames")
      [] opNum = 19 -> Serve("ResolveNamesRequest", "ResolveNames")
      [] opNum = 20 -> Serve("ResolveNamesWRequest", "ResolveNamesW")
      [] OTHER -> ReturnNilNil

\* NspiServerHandle numbering the methods by their position in the interface,
\* opnum 15 not left out.
NspiServerHandle_NoShift(o, opNum, r) ==
    CASE opNum = 0 -> Serve("BindRequest", "Bind")
      [] opNum = 1 -> Serve("UnbindRequest", "Unbind")
      [] opNum = 2 -> Serve("UpdateStatRequest", "UpdateStat")
      [] opNum = 3 -> Serve("QueryRowsRequest", "QueryRows")
      [] opNum = 4 -> Serve("SeekEntriesRequest", "SeekEntries")
      [] opNum = 5 -> Serve("GetMatchesRequest", "GetMatches")
      [] opNum = 6 -> Serve("ResortRestrictionRequest", "ResortRestriction")
      [] opNum = 7 -> Serve("DNToMIDRequest", "DNToMID")
      [] opNum = 8 -> Serve("GetPropertyListRequest", "GetPropertyList")
      [] opNum = 9 -> Serve("GetPropertiesRequest", "GetProperties")
      [] opNum = 10 -> Serve("CompareMIDsRequest", "CompareMIDs")
      [] opNum = 11 -> Serve("ModifyPropertiesRequest", "ModifyProperties")
      [] opNum = 12 -> Serve("GetSpecialTableRequest", "GetSpecialTable")
      [] opNum = 13 -> Serve("GetTemplateInfoRequest", "GetTemplateInfo")
      [] opNum = 14 -> Serve("ModifyLinkAttributeRequest", "ModifyLinkAttribute")
      [] opNum = 15 -> Serve("QueryColumnsRequest", "QueryColumns")
      [] opNum = 16 -> Serve("GetNamesFromIDsRequest", "GetNamesFromIDs")
      [] opNum = 17 -> Serve("GetIDsFromNamesRequest", "GetIDsFromNames")
      [] opNum = 18 -> Serve("ResolveNamesRequest", "ResolveNames")
      [] opNum = 19 -> Serve("ResolveNamesWRequest", "ResolveNamesW")
      [] OTHER -> ReturnNilNil

\* func NspiServerHandle(ctx, o, opNum, r): the arm the switch selects.
NspiServerHandle(o, opNum, r) ==
    CASE opNum = 0 -> Serve("BindRequest", "Bind")
      [] opNum = 1 -> Serve("UnbindRequest", "Unbind")
      [] opNum = 2 -> Serve("UpdateStatRequest", "UpdateStat")
      [] opNum = 3 -> Serve("QueryRowsRequest", "QueryRows")
      [] opNum = 4 -> Serve("SeekEntriesRequest", "SeekEntries")
      [] opNum = 5 -> Serve("GetMatchesRequest", "GetMatches")
      [] opNum = 6 -> Serve("ResortRestrictionRequest", "ResortRestriction")
      [] opNum = 7 -> Serve("DNToMIDRequest", "DNToMID")
      [] opNum = 8 -> Serve("GetPropertyListRequest", "GetPropertyList")
      [] opNum = 9 -> Serve("GetPropertiesRequest", "GetProperties")
      [] opNum = 10 -> Serve("CompareMIDsRequest", "CompareMIDs")
      [] opNum = 11 -> Serve("ModifyPropertiesRequest", "ModifyProperties")
      [] opNum = 12 -> Serve("GetSpecialTableRequest", "GetSpecialTable")
      [] opNum = 13 -> Serve("GetTemplateInfoRequest", "GetTemplateInfo")
      [] opNum = 14 -> Serve("ModifyLinkAttributeRequest", "ModifyLinkAttribute")
      [] opNum = 15 -> ReturnNilNil
      [] opNum = 16 -> Serve("QueryColumnsRequest", "QueryColumns")
      [] opNum = 17 -> Serve("GetNamesFromIDsRequest", "GetNamesFromIDs")
      [] opNum = 18 -> Serve("GetIDsFromNamesRequest", "GetIDsFromNames")
      [] opNum = 19 -> Serve("ResolveNamesRequest", "ResolveNames")
      [] opNum = 20 -> Serve("ResolveNamesWRequest", "ResolveNamesW")
      [] OTHER -> ReturnNilNil

\* type Dhcpsrv2Server interface: the methods the interface declares itself, in
\* declaration order, each with the opnum its documentation states (Nil: none).
Dhcpsrv2Server ==
    << [method |-> "EnumSubnetClientsV5", req |-> "EnumSubnetClientsV5Request", resp |-> "EnumSubnetClientsV5Response", doc |-> <<0>>],
       [method |-> "SetMScopeInfo", req |-> "SetMScopeInfoRequest", resp |-> "SetMScopeInfoResponse", doc |-> <<1>>],
       [method |-> "GetMScopeInfo", req |-> "GetMScopeInfoRequest", resp |-> "GetMScopeInfoResponse", doc |-> <<2>>],
       [method |-> "EnumMScopes", req |-> "EnumMScopesRequest", resp |-> "EnumMScopesResponse", doc |-> <<3>>],
       [method |-> "AddMScopeElement", req |-> "AddMScopeElementRequest", resp |-> "AddMScopeElementResponse", doc |-> <<4>>],
       [method |-> "EnumMScopeElements", req |-> "EnumMScopeElementsRequest", resp |-> "EnumMScopeElementsResponse", doc |-> <<5>>],
       [method |-> "RemoveMScopeElement", req |-> "RemoveMScopeElementRequest", resp |-> "RemoveMScopeElementResponse", doc |-> <<6>>],
       [method |-> "DeleteMScope", req |-> "DeleteMScopeRequest", resp |-> "DeleteMScopeResponse", doc |-> <<7>>],
       [method |-> "ScanMDatabase", req |-> "ScanMDatabaseRequest", resp |-> "ScanMDatabaseResponse", doc |-> <<8>>],
       [method |-> "CreateMClientInfo", req |-> "CreateMClientInfoRequest", resp |-> "CreateMClientInfoResponse", doc |-> <<9>>],
       [method |-> "SetMClientInfo", req |-> "SetMClientInfoRequest", resp |-> "SetMClientInfoResponse", doc |-> <<10>>],
       [method |-> "GetMClientInfo", req |-> "GetMClientInfoRequest", resp |-> "GetMClientInfoResponse", doc |-> <<11>>],
       [method |-> "DeleteMClientInfo", req |-> "DeleteMClientInfoRequest", resp |-> "DeleteMClientInfoResponse", doc |-> <<12>>],
       [method |-> "EnumMScopeClients", req |-> "EnumMScopeClientsRequest", resp |-> "EnumMScopeClientsResponse", doc |-> <<13>>],
       [method |-> "CreateOptionV5", req |-> "CreateOptionV5Request", resp |-> "CreateOptionV5Response", doc |-> <<14>>],
       [method |-> "SetOptionInfoV5", req |-> "SetOptionInfoV5Request", resp |-> "SetOptionInfoV5Response", doc |-> <<15>>],
       [method |-> "GetOptionInfoV5", req |-> "GetOptionInfoV5Request", resp |-> "GetOptionInfoV5Response", doc |-> <<16>>],
       [method |-> "EnumOptionsV5", req |-> "EnumOptionsV5Request", resp |-> "EnumOptionsV5Response", doc |-> <<17>>],
       [method |-> "RemoveOptionV5", req |-> "RemoveOptionV5Request", resp |-> "RemoveOptionV5Response", doc |-> <<18>>],
       [method |-> "SetOptionValueV5", req |-> "SetOptionValueV5Request", resp |-> "SetOptionValueV5Response", doc |-> <<19>>],
       [method |-> "SetOptionValuesV5", req |-> "SetOptionValuesV5Request", resp |-> "SetOptionValuesV5Response", doc |-> <<20>>],
       [method |-> "GetOptionValueV5", req |-> "GetOptionValueV5Request", resp |-> "GetOptionValueV5Response", doc |-> <<21>>],
       [method |-> "EnumOptionValuesV5", req |-> "EnumOptionValuesV5Request", resp |-> "EnumOptionValuesV5Response", doc |-> <<22>>],
       [method |-> "RemoveOptionValueV5", req |-> "RemoveOptionValueV5Request", resp |-> "RemoveOptionValueV5Response", doc |-> <<23>>],
       [method |-> "CreateClass", req |-> "CreateClassRequest", resp |-> "CreateClassResponse", doc |-> <<24>>],
       [method |-> "ModifyClass", req |-> "ModifyClassRequest", resp |-> "ModifyClassResponse", doc |-> <<25>>],
       [method |-> "DeleteClass", req |-> "DeleteClassRequest", resp |-> "DeleteClassResponse", doc |-> <<26>>],
       [method |-> "GetClassInfo", req |-> "GetClassInfoRequest", resp |-> "GetClassInfoResponse", doc |-> <<27>>],
       [method |-> "EnumClasses", req |-> "EnumClassesRequest", resp |-> "EnumClassesResponse", doc |-> <<28>>],
       [method |-> "GetAllOptions", req |-> "GetAllOptionsRequest", resp |-> "GetAllOptionsResponse", doc |-> <<29>>],
       [method |-> "GetAllOptionValues", req |-> "GetAllOptionValuesRequest", resp |-> "GetAllOptionValuesResponse", doc |-> <<30>>],
       [method |-> "GetMCastMIBInfo", req |-> "GetMCastMIBInfoRequest", resp |-> "GetMCastMIBInfoResponse", doc |-> <<31>>],
       [method |-> "AuditLogSetParams", req |-> "AuditLogSetParamsRequest", resp |-> "AuditLogSetParamsResponse", doc |-> <<32>>],
       [method |-> "AuditLogGetParams", req |-> "AuditLogGetParamsRequest", resp |-> "AuditLogGetParamsResponse", doc |-> <<33>>],
       [method |-> "ServerQueryAttribute", req |-> "ServerQueryAttributeRequest", resp |-> "ServerQueryAttributeResponse", doc |-> <<34>>],
       [method |-> "ServerQueryAttributes", req |-> "ServerQueryAttributesRequest", resp |-> "ServerQueryAttributesResponse", doc |-> <<35>>],
       [method |-> "ServerRedoAuthorization", req |-> "ServerRedoAuthorizationRequest", resp |-> "ServerRedoAuthorizationResponse", doc |-> <<36>>],
       [method |-> "AddSubnetElementV5", req |-> "AddSubnetElementV5Request", resp |-> "AddSubnetElementV5Response", doc |-> <<37>>],
       [method |-> "EnumSubnetElementsV5", req |-> "EnumSubnetElementsV5Request", resp |-> "EnumSubnetElementsV5Response", doc |-> <<38>>],
       [method |-> "RemoveSubnetElementV5", req |-> "RemoveSubnetElementV5Request", resp |-> "RemoveSubnetElementV5Response", doc |-> <<39>>],
       [method |-> "GetServerBindingInfo", req |-> "GetServerBindingInfoRequest", resp |-> "GetServerBindingInfoResponse", doc |-> <<40>>],
       [method |-> "SetServerBindingInfo", req |-> "SetServerBindingInfoRequest", resp |-> "SetServerBindingInfoResponse", doc |-> <<41>>],
       [method |-> "QueryDNSRegCredentials", req |-> "QueryDNSRegCredentialsRequest", resp |-> "QueryDNSRegCredentialsResponse", doc |-> <<42>>],
       [method |-> "SetDNSRegCredentials", req |-> "SetDNSRegCredentialsRequest", resp |-> "SetDNSRegCredentialsResponse", doc |-> <<43>>],
       [method |-> "BackupDatabase", req |-> "BackupDatabaseRequest", resp |-> "BackupDatabaseResponse", doc |-> <<44>>],
       [method |-> "RestoreDatabase", req |-> "RestoreDatabaseRequest", resp |-> "RestoreDatabaseResponse", doc |-> <<45>>],
       [method |-> "GetServerSpecificStrings", req |-> "GetServerSpecificStringsRequest", resp |-> "GetServerSpecificStringsResponse", doc |-> <<46>>],
       [method |-> "CreateOptionV6", req |-> "CreateOptionV6Request", resp |-> "CreateOptionV6Response", doc |-> <<47>>],
       [method |-> "SetOptionInfoV6", req |-> "SetOptionInfoV6Request", resp |-> "SetOptionInfoV6Response", doc |-> <<48>>],
       [method |-> "GetOptionInfoV6", req |-> "GetOptionInfoV6Request", resp |-> "GetOptionInfoV6Response", doc |-> <<49>>],
       [method |-> "EnumOptionsV6", req |-> "EnumOptionsV6Request", resp |-> "EnumOptionsV6Response", doc |-> <<50>>],
       [method |-> "RemoveOptionV6", req |-> "RemoveOptionV6Request", resp |-> "RemoveOptionV6Response", doc |-> <<51>>],
       [method |-> "SetOptionValueV6", req |-> "SetOptionValueV6Request", resp |-> "SetOptionValueV6Response", doc |-> <<52>>],
       [method |-> "EnumOptionValuesV6", req |-> "EnumOptionValuesV6Request", resp |-> "EnumOptionValuesV6Response", doc |-> <<53>>],
       [method |-> "RemoveOptionValueV6", req |-> "RemoveOptionValueV6Request", resp |-> "RemoveOptionValueV6Response", doc |-> <<54>>],
       [method |-> "GetAllOptionsV6", req |-> "GetAllOptionsV6Request", resp |-> "GetAllOptionsV6Response", doc |-> <<55>>],
       [method |-> "GetAllOptionValuesV6", req |-> "GetAllOptionValuesV6Request", resp |-> "GetAllOptionValuesV6Response", doc |-> <<56>>],
       [method |-> "CreateSubnetV6", req |-> "CreateSubnetV6Request", resp |-> "CreateSubnetV6Response", doc |-> <<57>>],
       [method |-> "EnumSubnetsV6", req |-> "EnumSubnetsV6Request", resp |-> "EnumSubnetsV6Response", doc |-> <<58>>],
       [method |-> "AddSubnetElementV6", req |-> "AddSubnetElementV6Request", resp |-> "AddSubnetElementV6Response", doc |-> <<59>>],
       [method |-> "EnumSubnetElementsV6", req |-> "EnumSubnetElementsV6Request", resp |-> "EnumSubnetElementsV6Response", doc |-> <<60>>],
       [method |-> "RemoveSubnetElementV6", req |-> "RemoveSubnetElementV6Request", resp |-> "RemoveSubnetElementV6Response", doc |-> <<61>>],
       [method |-> "DeleteSubnetV6", req |-> "DeleteSubnetV6Request", resp |-> "DeleteSubnetV6Response", doc |-> <<62>>],
       [method |-> "GetSubnetInfoV6", req |-> "GetSubnetInfoV6Request", resp |-> "GetSubnetInfoV6Response", doc |-> <<63>>],
       [method |-> "EnumSubnetClientsV6", req |-> "EnumSubnetClientsV6Request", resp |-> "EnumSubnetClientsV6Response", doc |-> <<64>>],
       [method |-> "ServerSetConfigV6", req |-> "ServerSetConfigV6Request", resp |-> "ServerSetConfigV6Response", doc |-> <<65>>],
       [method |-> "ServerGetConfigV6", req |-> "ServerGetConfigV6Request", resp |-> "ServerGetConfigV6Response", doc |-> <<66>>],
       [method |-> "SetSubnetInfoV6", req |-> "SetSubnetInfoV6Request", resp |-> "SetSubnetInfoV6Response", doc |-> <<67>>],
       [method |-> "GetMIBInfoV6", req |-> "GetMIBInfoV6Request", resp |-> "GetMIBInfoV6Response", doc |-> <<68>>],
       [method |-> "GetServerBindingInfoV6", req |-> "GetServerBindingInfoV6Request", resp |-> "GetServerBindingInfoV6Response", doc |-> <<69>>],
       [method |-> "SetServerBindingInfoV6", req |-> "SetServerBindingInfoV6Request", resp |-> "SetServerBindingInfoV6Response", doc |-> <<70>>],
       [method |-> "SetClientInfoV6", req |-> "SetClientInfoV6Request", resp |-> "SetClientInfoV6Response", doc |-> <<71>>],
       [method |-> "GetClientInfoV6", req |-> "GetClientInfoV6Request", resp |-> "GetClientInfoV6Response", doc |-> <<72>>],
       [method |-> "DeleteClientInfoV6", req |-> "DeleteClientInfoV6Request", resp |-> "DeleteClientInfoV6Response", doc |-> <<73>>],
       [method |-> "CreateClassV6", req |-> "CreateClassV6Request", resp |-> "CreateClassV6Response", doc |-> <<74>>],
       [method |-> "ModifyClassV6", req |-> "ModifyClassV6Request", resp |-> "ModifyClassV6Response", doc |-> <<75>>],
       [method |-> "DeleteClassV6", req |-> "DeleteClassV6Request", resp |-> "DeleteClassV6Response", doc |-> <<76>>],
       [method |-> "EnumClassesV6", req |-> "EnumClassesV6Request", resp |-> "EnumClassesV6Response", doc |-> <<77>>],
       [method |-> "GetOptionValueV6", req |-> "GetOptionValueV6Request", resp |-> "GetOptionValueV6Response", doc |-> <<78>>],
       [method |-> "SetSubnetDelayOffer", req |-> "SetSubnetDelayOfferRequest", resp |-> "SetSubnetDelayOfferResponse", doc |-> <<79>>],
       [method |-> "GetSubnetDelayOffer", req |-> "GetSubnetDelayOfferRequest", resp |-> "GetSubnetDelayOfferResponse", doc |-> <<80>>],
       [method |-> "GetMIBInfoV5", req |-> "GetMIBInfoV5Request", resp |-> "GetMIBInfoV5Response", doc |-> <<81>>],
       [method |-> "AddFilterV4", req |-> "AddFilterV4Request", resp |-> "AddFilterV4Response", doc |-> <<82>>],
       [method |-> "DeleteFilterV4", req |-> "DeleteFilterV4Request", resp |-> "DeleteFilterV4Response", doc |-> <<83>>],
       [method |-> "SetFilterV4", req |-> "SetFilterV4Request", resp |-> "SetFilterV4Response", doc |-> <<84>>],
       [method |-> "GetFilterV4", req |-> "GetFilterV4Request", resp |-> "GetFilterV4Response", doc |-> <<85>>],
       [method |-> "EnumFilterV4", req |-> "EnumFilterV4Request", resp |-> "EnumFilterV4Response", doc |-> <<86>>],
       [method |-> "SetDNSRegCredentialsV5", req |-> "SetDNSRegCredentialsV5Request", resp |-> "SetDNSRegCredentialsV5Response", doc |-> <<87>>],
       [method |-> "EnumSubnetClientsFilterStatusInfo", req |-> "EnumSubnetClientsFilterStatusInfoRequest", resp |-> "EnumSubnetClientsFilterStatusInfoResponse", doc |-> <<88>>],
       [method |-> "FailoverCreateRelationshipV4", req |-> "FailoverCreateRelationshipV4Request", resp |-> "FailoverCreateRelationshipV4Response", doc |-> <<89>>],
       [method |-> "FailoverSetRelationshipV4", req |-> "FailoverSetRelationshipV4Request", resp |-> "FailoverSetRelationshipV4Response", doc |-> <<90>>],
       [method |-> "FailoverDeleteRelationshipV4", req |-> "FailoverDeleteRelationshipV4Request", resp |-> "FailoverDeleteRelationshipV4Response", doc |-> <<91>>],
       [method |-> "FailoverGetRelationshipV4", req |-> "FailoverGetRelationshipV4Request", resp |-> "FailoverGetRelationshipV4Response", doc |-> <<92>>],
       [method |-> "FailoverEnumRelationshipV4", req |-> "FailoverEnumRelationshipV4Request", resp |-> "FailoverEnumRelationshipV4Response", doc |-> <<93>>],
       [method |-> "FailoverAddScopeToRelationshipV4", req |-> "FailoverAddScopeToRelationshipV4Request", resp |-> "FailoverAddScopeToRelationshipV4Response", doc |-> <<94>>],
       [method |-> "FailoverDeleteScopeFromRelationshipV4", req |-> "FailoverDeleteScopeFromRelationshipV4Request", resp |-> "FailoverDeleteScopeFromRelationshipV4Response", doc |-> <<95>>],
       [method |-> "FailoverGetScopeRelationshipV4", req |-> "FailoverGetScopeRelationshipV4Request", resp |-> "FailoverGetScopeRelationshipV4Response", doc |-> <<96>>],
       [method |-> "FailoverGetScopeStatisticsV4", req |-> "FailoverGetScopeStatisticsV4Request", resp |-> "FailoverGetScopeStatisticsV4Response", doc |-> <<97>>],
       [method |-> "FailoverGetClientInfoV4", req |-> "FailoverGetClientInfoV4Request", resp |-> "FailoverGetClientInfoV4Response", doc |-> <<98>>],
       [method |-> "FailoverGetSystemTimeV4", req |-> "FailoverGetSystemTimeV4Request", resp |-> "FailoverGetSystemTimeV4Response", doc |-> <<99>>],
       [method |-> "FailoverTriggerAddrAllocationV4", req |-> "FailoverTriggerAddrAllocationV4Request", resp |-> "FailoverTriggerAddrAllocationV4Response", doc |-> <<100>>],
       [method |-> "SetOptionValueV4", req |-> "SetOptionValueV4Request", resp |-> "SetOptionValueV4Response", doc |-> <<101>>],
       [method |-> "SetOptionValuesV4", req |-> "SetOptionValuesV4Request", resp |-> "SetOptionValuesV4Response", doc |-> <<102>>],
       [method |-> "GetOptionValueV4", req |-> "GetOptionValueV4Request", resp |-> "GetOptionValueV4Response", doc |-> <<103>>],
       [method |-> "RemoveOptionValueV4", req |-> "RemoveOptionValueV4Request", resp |-> "RemoveOptionValueV4Response", doc |-> <<104>>],
       [method |-> "GetAllOptionValuesV4", req |-> "GetAllOptionValuesV4Request", resp |-> "GetAllOptionValuesV4Response", doc |-> <<105>>],
       [method |-> "QueryPolicyEnforcementV4", req |-> "QueryPolicyEnforcementV4Request", resp |-> "QueryPolicyEnforcementV4Response", doc |-> <<106>>],
       [method |-> "SetPolicyEnforcementV4", req |-> "SetPolicyEnforcementV4Request", resp |-> "SetPolicyEnforcementV4Response", doc |-> <<107>>],
       [method |-> "CreatePolicyV4", req |-> "CreatePolicyV4Request", resp |-> "CreatePolicyV4Response", doc |-> <<108>>],
       [method |-> "GetPolicyV4", req |-> "GetPolicyV4Request", resp |-> "GetPolicyV4Response", doc |-> <<109>>],
       [method |-> "SetPolicyV4", req |-> "SetPolicyV4Request", resp |-> "SetPolicyV4Response", doc |-> <<110>>],
       [method |-> "DeletePolicyV4", req |-> "DeletePolicyV4Request", resp |-> "DeletePolicyV4Response", doc |-> <<111>>],
       [method |-> "EnumPoliciesV4", req |-> "EnumPoliciesV4Request", resp |-> "EnumPoliciesV4Response", doc |-> <<112>>],
       [method |-> "AddPolicyRangeV4", req |-> "AddPolicyRangeV4Request", resp |-> "AddPolicyRangeV4Response", doc |-> <<113>>],
       [method |-> "RemovePolicyRangeV4", req |-> "RemovePolicyRangeV4Request", resp |-> "RemovePolicyRangeV4Response", doc |-> <<114>>],
       [method |-> "EnumSubnetClientsV4", req |-> "EnumSubnetClientsV4Request", resp |-> "EnumSubnetClientsV4Response", doc |-> Nil],
       [method |-> "SetStatelessStoreParamsV6", req |-> "SetStatelessStoreParamsV6Request", resp |-> "SetStatelessStoreParamsV6Response", doc |-> <<116>>],
       [method |-> "GetStatelessStoreParamsV6", req |-> "GetStatelessStoreParamsV6Request", resp |-> "GetStatelessStoreParamsV6Response", doc |-> <<117>>],
       [method |-> "GetStatelessStatisticsV6", req |-> "GetStatelessStatisticsV6Request", resp |-> "GetStatelessStatisticsV6Response", doc |-> <<118>>],
       [method |-> "EnumSubnetReservationsV4", req |-> "EnumSubnetReservationsV4Request", resp |-> "EnumSubnetReservationsV4Response", doc |-> <<119>>],
       [method |-> "GetFreeIPAddressV4", req |-> "GetFreeIPAddressV4Request", resp |-> "GetFreeIPAddressV4Response", doc |-> <<120>>],
       [method |-> "GetFreeIPAddressV6", req |-> "GetFreeIPAddressV6Request", resp |-> "GetFreeIPAddressV6Response", doc |-> <<121>>],
       [method |-> "CreateClientInfoV4", req |-> "CreateClientInfoV4Request", resp |-> "CreateClientInfoV4Response", doc |-> <<122>>],
       [method |-> "GetClientInfoV4", req |-> "GetClientInfoV4Request", resp |-> "GetClientInfoV4Response", doc |-> <<123>>],
       [method |-> "CreateClientInfoV6", req |-> "CreateClientInfoV6Request", resp |-> "CreateClientInfoV6Response", doc |-> <<124>>],
       [method |-> "FailoverGetAddressStatusV4", req |-> "FailoverGetAddressStatusV4Request", resp |-> "FailoverGetAddressStatusV4Response", doc |-> <<125>>],
       [method |-> "CreatePolicyExV4", req |-> "CreatePolicyExV4Request", resp |-> "CreatePolicyExV4Response", doc |-> <<126>>],
       [method |-> "GetPolicyExV4", req |-> "GetPolicyExV4Request", resp |-> "GetPolicyExV4Response", doc |-> <<127>>],
       [method |-> "SetPolicyExV4", req |-> "SetPolicyExV4Request", resp |-> "SetPolicyExV4Response", doc |-> <<128>>],
       [method |-> "EnumPoliciesExV4", req |-> "EnumPoliciesExV4Request", resp |-> "EnumPoliciesExV4Response", doc |-> <<129>>],
       [method |-> "EnumSubnetClientsExV4", req |-> "EnumSubnetClientsExV4Request", resp |-> "EnumSubnetClientsExV4Response", doc |-> <<130>>],
       [method |-> "CreateClientInfoExV4", req |-> "CreateClientInfoExV4Request", resp |-> "CreateClientInfoExV4Response", doc |-> Nil],
       [method |-> "GetClientInfoExV4", req |-> "GetClientInfoExV4Request", resp |-> "GetClientInfoExV4Response", doc |-> <<132>>] >>

\* The opnums the documentation of Dhcpsrv2Server cites by cross-reference
\* ("R_DhcpV4CreatePolicy (Opnum 108)"), each with the method whose documentation
\* introduces the cited procedure.
Dhcpsrv2CrossRefs ==
    << [method |-> "CreatePolicyV4", doc |-> <<108>>],
       [method |-> "GetPolicyV4", doc |-> <<109>>],
       [method |-> "SetPolicyV4", doc |-> <<110>>],
       [method |-> "EnumPoliciesV4", doc |-> <<112>>],
       [method |-> "EnumSubnetClientsV4", doc |-> <<115>>],
       [method |-> "CreateClientInfoV4", doc |-> <<122>>],
       [method |-> "GetClientInfoV4", doc |-> <<123>>] >>

\* Dhcpsrv2ServerHandle with the arms of opnums 129 and 130 exchanged.
Dhcpsrv2ServerHandle_Swapped(o, opNum, r) ==
    CASE opNum = 0 -> Serve("EnumSubnetClientsV5Request", "EnumSubnetClientsV5")
      [] opNum = 1 -> Serve("SetMScopeInfoRequest", "SetMScopeInfo")
      [] opNum = 2 -> Serve("GetMScopeInfoRequest", "GetMScopeInfo")
      [] opNum = 3 -> Serve("EnumMScopesRequest", "EnumMScopes")
      [] opNum = 4 -> Serve("AddMScopeElementRequest", "AddMScopeElement")
      [] opNum = 5 -> Serve("EnumMScopeElementsRequest", "EnumMScopeElements")
      [] opNum = 6 -> Serve("RemoveMScopeElementRequest", "RemoveMScopeElement")
      [] opNum = 7 -> Serve("DeleteMScopeRequest", "DeleteMScope")
      [] opNum = 8 -> Serve("ScanMDatabaseRequest", "ScanMDatabase")
      [] opNum = 9 -> Serve("CreateMClientInfoRequest", "CreateMClientInfo")
      [] opNum = 10 -> Serve("SetMClientInfoRequest", "SetMClientInfo")
      [] opNum = 11 -> Serve("GetMClientInfoRequest", "GetMClientInfo")
      [] opNum = 12 -> Serve("DeleteMClientInfoRequest", "DeleteMClientInfo")
      [] opNum = 13 -> Serve("EnumMScopeClientsRequest", "EnumMScopeClients")
      [] opNum = 14 -> Serve("CreateOptionV5Request", "CreateOptionV5")
      [] opNum = 15 -> Serve("SetOptionInfoV5Request", "SetOptionInfoV5")
      [] opNum = 16 -> Serve("GetOptionInfoV5Request", "GetOptionInfoV5")
      [] opNum = 17 -> Serve("EnumOptionsV5Request", "EnumOptionsV5")
      [] opNum = 18 -> Serve("RemoveOptionV5Request", "RemoveOptionV5")
      [] opNum = 19 -> Serve("SetOptionValueV5Request", "SetOptionValueV5")
      [] opNum = 20 -> Serve("SetOptionValuesV5Request", "SetOptionValuesV5")
      [] opNum = 21 -> Serve("GetOptionValueV5Request", "GetOptionValueV5")
      [] opNum = 22 -> Serve("EnumOptionValuesV5Request", "EnumOptionValuesV5")
      [] opNum = 23 -> Serve("RemoveOptionValueV5Request", "RemoveOptionValueV5")
      [] opNum = 24 -> Serve("CreateClassRequest", "CreateClass")
      [] opNum = 25 -> Serve("ModifyClassRequest", "ModifyClass")
      [] opNum = 26 -> Serve("DeleteClassRequest", "DeleteClass")
      [] opNum = 27 -> Serve("GetClassInfoRequest", "GetClassInfo")
      [] opNum = 28 -> Serve("EnumClassesRequest", "EnumClasses")
      [] opNum = 29 -> Serve("GetAllOptionsRequest", "GetAllOptions")
      [] opNum = 30 -> Serve("GetAllOptionValuesRequest", "GetAllOptionValues")
      [] opNum = 31 -> Serve("GetMCastMIBInfoRequest", "GetMCastMIBInfo")
      [] opNum = 32 -> Serve("AuditLogSetParamsRequest", "AuditLogSetParams")
      [] opNum = 33 -> Serve("AuditLogGetParamsRequest", "AuditLogGetParams")
      [] opNum = 34 -> Serve("ServerQueryAttributeRequest", "ServerQueryAttribute")
      [] opNum = 35 -> Serve("ServerQueryAttributesRequest", "ServerQueryAttributes")
      [] opNum = 36 -> Serve("ServerRedoAuthorizationRequest", "ServerRedoAuthorization")
      [] opNum = 37 -> Serve("AddSubnetElementV5Request", "AddSubnetElementV5")
      [] opNum = 38 -> Serve("EnumSubnetElementsV5Request", "EnumSubnetElementsV5")
      [] opNum = 39 -> Serve("RemoveSubnetElementV5Request", "RemoveSubnetElementV5")
      [] opNum = 40 -> Serve("GetServerBindingInfoRequest", "GetServerBindingInfo")
      [] opNum = 41 -> Serve("SetServerBindingInfoRequest", "SetServerBindingInfo")
      [] opNum = 42 -> Serve("QueryDNSRegCredentialsRequest", "QueryDNSRegCredentials")
      [] opNum = 43 -> Serve("SetDNSRegCredentialsRequest", "SetDNSRegCredentials")
      [] opNum = 44 -> Serve("BackupDatabaseRequest", "BackupDatabase")
      [] opNum = 45 -> Serve("RestoreDatabaseRequest", "RestoreDatabase")
      [] opNum = 46 -> Serve("GetServerSpecificStringsRequest", "GetServerSpecificStrings")
      [] opNum = 47 -> Serve("CreateOptionV6Request", "CreateOptionV6")
      [] opNum = 48 -> Serve("SetOptionInfoV6Request", "SetOptionInfoV6")
      [] opNum = 49 -> Serve("GetOptionInfoV6Request", "GetOptionInfoV6")
      [] opNum = 50 -> Serve("EnumOptionsV6Request", "EnumOptionsV6")
      [] opNum = 51 -> Serve("RemoveOptionV6Request", "RemoveOptionV6")
      [] opNum = 52 -> Serve("SetOptionValueV6Request", "SetOptionValueV6")
      [] opNum = 53 -> Serve("EnumOptionValuesV6Request", "EnumOptionValuesV6")
      [] opNum = 54 -> Serve("RemoveOptionValueV6Request", "RemoveOptionValueV6")
      [] opNum = 55 -> Serve("GetAllOptionsV6Request", "GetAllOptionsV6")
      [] opNum = 56 -> Serve("GetAllOptionValuesV6Request", "GetAllOptionValuesV6")
      [] opNum = 57 -> Serve("CreateSubnetV6Request", "CreateSubnetV6")
      [] opNum = 58 -> Serve("EnumSubnetsV6Request", "EnumSubnetsV6")
      [] opNum = 59 -> Serve("AddSubnetElementV6Request", "AddSubnetElementV6")
      [] opNum = 60 -> Serve("EnumSubnetElementsV6Request", "EnumSubnetElementsV6")
      [] opNum = 61 -> Serve("RemoveSubnetElementV6Request", "RemoveSubnetElementV6")
      [] opNum = 62 -> Serve("DeleteSubnetV6Request", "DeleteSubnetV6")
      [] opNum = 63 -> Serve("GetSubnetInfoV6Request", "GetSubnetInfoV6")
      [] opNum = 64 -> Serve("EnumSubnetClientsV6Request", "EnumSubnetClientsV6")
      [] opNum = 65 -> Serve("ServerSetConfigV6Request", "ServerSetConfigV6")
      [] opNum = 66 -> Serve("ServerGetConfigV6Request", "ServerGetConfigV6")
      [] opNum = 67 -> Serve("SetSubnetInfoV6Request", "SetSubnetInfoV6")
      [] opNum = 68 -> Serve("GetMIBInfoV6Request", "GetMIBInfoV6")
      [] opNum = 69 -> Serve("GetServerBindingInfoV6Request", "GetServerBindingInfoV6")
      [] opNum = 70 -> Serve("SetServerBindingInfoV6Request", "SetServerBindingInfoV6")
      [] opNum = 71 -> Serve("SetClientInfoV6Request", "SetClientInfoV6")
      [] opNum = 72 -> Serve("GetClientInfoV6Request", "GetClientInfoV6")
      [] opNum = 73 -> Serve("DeleteClientInfoV6Request", "DeleteClientInfoV6")
      [] opNum = 74 -> Serve("CreateClassV6Request", "CreateClassV6")
      [] opNum = 75 -> Serve("ModifyClassV6Request", "ModifyClassV6")
      [] opNum = 76 -> Serve("DeleteClassV6Request", "DeleteClassV6")
      [] opNum = 77 -> Serve("EnumClassesV6Request", "EnumClassesV6")
      [] opNum = 78 -> Serve("GetOptionValueV6Request", "GetOptionValueV6")
      [] opNum = 79 -> Serve("SetSubnetDelayOfferRequest", "SetSubnetDelayOffer")
      [] opNum = 80 -> Serve("GetSubnetDelayOfferRequest", "GetSubnetDelayOffer")
      [] opNum = 81 -> Serve("GetMIBInfoV5Request", "GetMIBInfoV5")
      [] opNum = 82 -> Serve("AddFilterV4Request", "AddFilterV4")
      [] opNum = 83 -> Serve("DeleteFilterV4Request", "DeleteFilterV4")
      [] opNum = 84 -> Serve("SetFilterV4Request", "SetFilterV4")
      [] opNum = 85 -> Serve("GetFilterV4Request", "GetFilterV4")
      [] opNum = 86 -> Serve("EnumFilterV4Request", "EnumFilterV4")
      [] opNum = 87 -> Serve("SetDNSRegCredentialsV5Request", "SetDNSRegCredentialsV5")
      [] opNum = 88 -> Serve("EnumSubnetClientsFilterStatusInfoRequest", "EnumSubnetClientsFilterStatusInfo")
      [] opNum = 89 -> Serve("FailoverCreateRelationshipV4Request", "FailoverCreateRelationshipV4")
      [] opNum = 90 -> Serve("FailoverSetRelationshipV4Request", "FailoverSetRelationshipV4")
      [] opNum = 91 -> Serve("FailoverDeleteRelationshipV4Request", "FailoverDeleteRelationshipV4")
      [] opNum = 92 -> Serve("FailoverGetRelationshipV4Request", "FailoverGetRelationshipV4")
      [] opNum = 93 -> Serve("FailoverEnumRelationshipV4Request", "FailoverEnumRelationshipV4")
      [] opNum = 94 -> Serve("FailoverAddScopeToRelationshipV4Request", "FailoverAddScopeToRelationshipV4")
      [] opNum = 95 -> Serve("FailoverDeleteScopeFromRelationshipV4Request", "FailoverDeleteScopeFromRelationshipV4")
      [] opNum = 96 -> Serve("FailoverGetScopeRelationshipV4Request", "FailoverGetScopeRelationshipV4")
      [] opNum = 97 -> Serve("FailoverGetScopeStatisticsV4Request", "FailoverGetScopeStatisticsV4")
      [] opNum = 98 -> Serve("FailoverGetClientInfoV4Request", "FailoverGetClientInfoV4")
      [] opNum = 99 -> Serve("FailoverGetSystemTimeV4Request", "FailoverGetSystemTimeV4")
      [] opNum = 100 -> Serve("FailoverTriggerAddrAllocationV4Request", "FailoverTriggerAddrAllocationV4")
      [] opNum = 101 -> Serve("SetOptionValueV4Request", "SetOptionValueV4")
      [] opNum = 102 -> Serve("SetOptionValuesV4Request", "SetOptionValuesV4")
      [] opNum = 103 -> Serve("GetOptionValueV4Request", "GetOptionValueV4")
      [] opNum = 104 -> Serve("RemoveOptionValueV4Request", "RemoveOptionValueV4")
      [] opNum = 105 -> Serve("GetAllOptionValuesV4Request", "GetAllOptionValuesV4")
      [] opNum = 106 -> Serve("QueryPolicyEnforcementV4Request", "QueryPolicyEnforcementV4")
      [] opNum = 107 -> Serve("SetPolicyEnforcementV4Request", "SetPolicyEnforcementV4")
      [] opNum = 108 -> Serve("CreatePolicyV4Request", "CreatePolicyV4")
      [] opNum = 109 -> Serve("GetPolicyV4Request", "GetPolicyV4")
      [] opNum = 110 -> Serve("SetPolicyV4Request", "SetPolicyV4")
      [] opNum = 111 -> Serve("DeletePolicyV4Request", "DeletePolicyV4")
      [] opNum = 112 -> Serve("EnumPoliciesV4Request", "EnumPoliciesV4")
      [] opNum = 113 -> Serve("AddPolicyRangeV4Request", "AddPolicyRangeV4")
      [] opNum = 114 -> Serve("RemovePolicyRangeV4Request", "RemovePolicyRangeV4")
      [] opNum = 115 -> Serve("EnumSubnetClientsV4Request", "EnumSubnetClientsV4")
      [] opNum = 116 -> Serve("SetStatelessStoreParamsV6Request", "SetStatelessStoreParamsV6")
      [] opNum = 117 -> Serve("GetStatelessStoreParamsV6Request", "GetStatelessStoreParamsV6")
      [] opNum = 118 -> Serve("GetStatelessStatisticsV6Request", "GetStatelessStatisticsV6")
      [] opNum = 119 -> Serve("EnumSubnetReservationsV4Request", "EnumSubnetReservationsV4")
      [] opNum = 120 -> Serve("GetFreeIPAddressV4Request", "GetFreeIPAddressV4")
      [] opNum = 121 -> Serve("GetFreeIPAddressV6Request", "GetFreeIPAddressV6")
      [] opNum = 122 -> Serve("CreateClientInfoV4Request", "CreateClientInfoV4")
      [] opNum = 123 -> Serve("GetClientInfoV4Request", "GetClientInfoV4")
      [] opNum = 124 -> Serve("CreateClientInfoV6Request", "CreateClientInfoV6")
      [] opNum = 125 -> Serve("FailoverGetAddressStatusV4Request", "FailoverGetAddressStatusV4")
      [] opNum = 126 -> Serve("CreatePolicyExV4Request", "CreatePolicyExV4")
      [] opNum = 127 -> Serve("GetPolicyExV4Request", "GetPolicyExV4")
      [] opNum = 128 -> Serve("SetPolicyExV4Request", "SetPolicyExV4")
      [] opNum = 129 -> Serve("EnumSubnetClientsExV4Request", "EnumSubnetClientsExV4")
      [] opNum = 130 -> Serve("EnumPoliciesExV4Request", "EnumPoliciesExV4")
      [] opNum = 131 -> Serve("CreateClientInfoExV4Request", "CreateClientInfoExV4")
      [] opNum = 132 -> Serve("GetClientInfoExV4Request", "GetClientInfoExV4")
      [] OTHER -> ReturnNilNil

\* func Dhcpsrv2ServerHandle(ctx, o, opNum, r): the arm the switch selects.
Dhcpsrv2ServerHandle(o, opNum, r) ==
    CASE opNum = 0 -> Serve("EnumSubnetClientsV5Request", "EnumSubnetClientsV5")
      [] opNum = 1 -> Serve("SetMScopeInfoRequest", "SetMScopeInfo")
      [] opNum = 2 -> Serve("GetMScopeInfoRequest", "GetMScopeInfo")
      [] opNum = 3 -> Serve("EnumMScopesRequest", "EnumMScopes")
      [] opNum = 4 -> Serve("AddMScopeElementRequest", "AddMScopeElement")
      [] opNum = 5 -> Serve("EnumMScopeElementsRequest", "EnumMScopeElements")
      [] opNum = 6 -> Serve("RemoveMScopeElementRequest", "RemoveMScopeElement")
      [] opNum = 7 -> Serve("DeleteMScopeRequest", "DeleteMScope")
      [] opNum = 8 -> Serve("ScanMDatabaseRequest", "ScanMDatabase")
      [] opNum = 9 -> Serve("CreateMClientInfoRequest", "CreateMClientInfo")
      [] opNum = 10 -> Serve("SetMClientInfoRequest", "SetMClientInfo")
      [] opNum = 11 -> Serve("GetMClientInfoRequest", "GetMClientInfo")
      [] opNum = 12 -> Serve("DeleteMClientInfoRequest", "DeleteMClientInfo")
      [] opNum = 13 -> Serve("EnumMScopeClientsRequest", "EnumMScopeClients")
      [] opNum = 14 -> Serve("CreateOptionV5Request", "CreateOptionV5")
      [] opNum = 15 -> Serve("SetOptionInfoV5Request", "SetOptionInfoV5")
      [] opNum = 16 -> Serve("GetOptionInfoV5Request", "GetOptionInfoV5")
      [] opNum = 17 -> Serve("EnumOptionsV5Request", "EnumOptionsV5")
      [] opNum = 18 -> Serve("RemoveOptionV5Request", "RemoveOptionV5")
      [] opNum = 19 -> Serve("SetOptionValueV5Request", "SetOptionValueV5")
      [] opNum = 20 -> Serve("SetOptionValuesV5Request", "SetOptionValuesV5")
      [] opNum = 21 -> Serve("GetOptionValueV5Request", "GetOptionValueV5")
      [] opNum = 22 -> Serve("EnumOptionValuesV5Request", "EnumOptionValuesV5")
      [] opNum = 23 -> Serve("RemoveOptionValueV5Request", "RemoveOptionValueV5")
      [] opNum = 24 -> Serve("CreateClassRequest", "CreateClass")
      [] opNum = 25 -> Serve("ModifyClassRequest", "ModifyClass")
      [] opNum = 26 -> Serve("DeleteClassRequest", "DeleteClass")
      [] opNum = 27 -> Serve("GetClassInfoRequest", "GetClassInfo")
      [] opNum = 28 -> Serve("EnumClassesRequest", "EnumClasses")
      [] opNum = 29 -> Serve("GetAllOptionsRequest", "GetAllOptions")
      [] opNum = 30 -> Serve("GetAllOptionValuesRequest", "GetAllOptionValues")
      [] opNum = 31 -> Serve("GetMCastMIBInfoRequest", "GetMCastMIBInfo")
      [] opNum = 32 -> Serve("AuditLogSetParamsRequest", "AuditLogSetParams")
      [] opNum = 33 -> Serve("AuditLogGetParamsRequest", "AuditLogGetParams")
      [] opNum = 34 -> Serve("ServerQueryAttributeRequest", "ServerQueryAttribute")
      [] opNum = 35 -> Serve("ServerQueryAttributesRequest", "ServerQueryAttributes")
      [] opNum = 36 -> Serve("ServerRedoAuthorizationRequest", "ServerRedoAuthorization")
      [] opNum = 37 -> Serve("AddSubnetElementV5Request", "AddSubnetElementV5")
      [] opNum = 38 -> Serve("EnumSubnetElementsV5Request", "EnumSubnetElementsV5")
      [] opNum = 39 -> Serve("RemoveSubnetElementV5Request", "RemoveSubnetElementV5")
      [] opNum = 40 -> Serve("GetServerBindingInfoRequest", "GetServerBindingInfo")
      [] opNum = 41 -> Serve("SetServerBindingInfoRequest", "SetServerBindingInfo")
      [] opNum = 42 -> Serve("QueryDNSRegCredentialsRequest", "QueryDNSRegCredentials")
      [] opNum = 43 -> Serve("SetDNSRegCredentialsRequest", "SetDNSRegCredentials")
      [] opNum = 44 -> Serve("BackupDatabaseRequest", "BackupDatabase")
      [] opNum = 45 -> Serve("RestoreDatabaseRequest", "RestoreDatabase")
      [] opNum = 46 -> Serve("GetServerSpecificStringsRequest", "GetServerSpecificStrings")
      [] opNum = 47 -> Serve("CreateOptionV6Request", "CreateOptionV6")
      [] opNum = 48 -> Serve("SetOptionInfoV6Request", "SetOptionInfoV6")
      [] opNum = 49 -> Serve("GetOptionInfoV6Request", "GetOptionInfoV6")
      [] opNum = 50 -> Serve("EnumOptionsV6Request", "EnumOptionsV6")
      [] opNum = 51 -> Serve("RemoveOptionV6Request", "RemoveOptionV6")
      [] opNum = 52 -> Serve("SetOptionValueV6Request", "SetOptionValueV6")
      [] opNum = 53 -> Serve("EnumOptionValuesV6Request", "EnumOptionValuesV6")
      [] opNum = 54 -> Serve("RemoveOptionValueV6Request", "RemoveOptionValueV6")
      [] opNum = 55 -> Serve("GetAllOptionsV6Request", "GetAllOptionsV6")
      [] opNum = 56 -> Serve("GetAllOptionValuesV6Request", "GetAllOptionValuesV6")
      [] opNum = 57 -> Serve("CreateSubnetV6Request", "CreateSubnetV6")
      [] opNum = 58 -> Serve("EnumSubnetsV6Request", "EnumSubnetsV6")
      [] opNum = 59 -> Serve("AddSubnetElementV6Request", "AddSubnetElementV6")
      [] opNum = 60 -> Serve("EnumSubnetElementsV6Request", "EnumSubnetElementsV6")
      [] opNum = 61 -> Serve("RemoveSubnetElementV6Request", "RemoveSubnetElementV6")
      [] opNum = 62 -> Serve("DeleteSubnetV6Request", "DeleteSubnetV6")
      [] opNum = 63 -> Serve("GetSubnetInfoV6Request", "GetSubnetInfoV6")
      [] opNum = 64 -> Serve("EnumSubnetClientsV6Request", "EnumSubnetClientsV6")
      [] opNum = 65 -> Serve("ServerSetConfigV6Request", "ServerSetConfigV6")
      [] opNum = 66 -> Serve("ServerGetConfigV6Request", "ServerGetConfigV6")
      [] opNum = 67 -> Serve("SetSubnetInfoV6Request", "SetSubnetInfoV6")
      [] opNum = 68 -> Serve("GetMIBInfoV6Request", "GetMIBInfoV6")
      [] opNum = 69 -> Serve("GetServerBindingInfoV6Request", "GetServerBindingInfoV6")
      [] opNum = 70 -> Serve("SetServerBindingInfoV6Request", "SetServerBindingInfoV6")
      [] opNum = 71 -> Serve("SetClientInfoV6Request", "SetClientInfoV6")
      [] opNum = 72 -> Serve("GetClientInfoV6Request", "GetClientInfoV6")
      [] opNum = 73 -> Serve("DeleteClientInfoV6Request", "DeleteClientInfoV6")
      [] opNum = 74 -> Serve("CreateClassV6Request", "CreateClassV6")
      [] opNum = 75 -> Serve("ModifyClassV6Request", "ModifyClassV6")
      [] opNum = 76 -> Serve("DeleteClassV6Request", "DeleteClassV6")
      [] opNum = 77 -> Serve("EnumClassesV6Request", "EnumClassesV6")
      [] opNum = 78 -> Serve("GetOptionValueV6Request", "GetOptionValueV6")
      [] opNum = 79 -> Serve("SetSubnetDelayOfferRequest", "SetSubnetDelayOffer")
      [] opNum = 80 -> Serve("GetSubnetDelayOfferRequest", "GetSubnetDelayOffer")
      [] opNum = 81 -> Serve("GetMIBInfoV5Request", "GetMIBInfoV5")
      [] opNum = 82 -> Serve("AddFilterV4Request", "AddFilterV4")
      [] opNum = 83 -> Serve("DeleteFilterV4Request", "DeleteFilterV4")
      [] opNum = 84 -> Serve("SetFilterV4Request", "SetFilterV4")
      [] opNum = 85 -> Serve("GetFilterV4Request", "GetFilterV4")
      [] opNum = 86 -> Serve("EnumFilterV4Request", "EnumFilterV4")
      [] opNum = 87 -> Serve("SetDNSRegCredentialsV5Request", "SetDNSRegCredentialsV5")
      [] opNum = 88 -> Serve("EnumSubnetClientsFilterStatusInfoRequest", "EnumSubnetClientsFilterStatusInfo")
      [] opNum = 89 -> Serve("FailoverCreateRelationshipV4Request", "FailoverCreateRelationshipV4")
      [] opNum = 90 -> Serve("FailoverSetRelationshipV4Request", "FailoverSetRelationshipV4")
      [] opNum = 91 -> Serve("FailoverDeleteRelationshipV4Request", "FailoverDeleteRelationshipV4")
      [] opNum = 92 -> Serve("FailoverGetRelationshipV4Request", "FailoverGetRelationshipV4")
      [] opNum = 93 -> Serve("FailoverEnumRelationshipV4Request", "FailoverEnumRelationshipV4")
      [] opNum = 94 -> Serve("FailoverAddScopeToRelationshipV4Request", "FailoverAddScopeToRelationshipV4")
      [] opNum = 95 -> Serve("FailoverDeleteScopeFromRelationshipV4Request", "FailoverDeleteScopeFromRelationshipV4")
      [] opNum = 96 -> Serve("FailoverGetScopeRelationshipV4Request", "FailoverGetScopeRelationshipV4")
      [] opNum = 97 -> Serve("FailoverGetScopeStatisticsV4Request", "FailoverGetScopeStatisticsV4")
      [] opNum = 98 -> Serve("FailoverGetClientInfoV4Request", "FailoverGetClientInfoV4")
      [] opNum = 99 -> Serve("FailoverGetSystemTimeV4Request", "FailoverGetSystemTimeV4")
      [] opNum = 100 -> Serve("FailoverTriggerAddrAllocationV4Request", "FailoverTriggerAddrAllocationV4")
      [] opNum = 101 -> Serve("SetOptionValueV4Request", "SetOptionValueV4")
      [] opNum = 102 -> Serve("SetOptionValuesV4Request", "SetOptionValuesV4")
      [] opNum = 103 -> Serve("GetOptionValueV4Request", "GetOptionValueV4")
      [] opNum = 104 -> Serve("RemoveOptionValueV4Request", "RemoveOptionValueV4")
      [] opNum = 105 -> Serve("GetAllOptionValuesV4Request", "GetAllOptionValuesV4")
      [] opNum = 106 -> Serve("QueryPolicyEnforcementV4Request", "QueryPolicyEnforcementV4")
      [] opNum = 107 -> Serve("SetPolicyEnforcementV4Request", "SetPolicyEnforcementV4")
      [] opNum = 108 -> Serve("CreatePolicyV4Request", "CreatePolicyV4")
      [] opNum = 109 -> Serve("GetPolicyV4Request", "GetPolicyV4")
      [] opNum = 110 -> Serve("SetPolicyV4Request", "SetPolicyV4")
      [] opNum = 111 -> Serve("DeletePolicyV4Request", "DeletePolicyV4")
      [] opNum = 112 -> Serve("EnumPoliciesV4Request", "EnumPoliciesV4")
      [] opNum = 113 -> Serve("AddPolicyRangeV4Request", "AddPolicyRangeV4")
      [] opNum = 114 -> Serve("RemovePolicyRangeV4Request", "RemovePolicyRangeV4")
      [] opNum = 115 -> Serve("EnumSubnetClientsV4Request", "EnumSubnetClientsV4")
      [] opNum = 116 -> Serve("SetStatelessStoreParamsV6Request", "SetStatelessStoreParamsV6")
      [] opNum = 117 -> Serve("GetStatelessStoreParamsV6Request", "GetStatelessStoreParamsV6")
      [] opNum = 118 -> Serve("GetStatelessStatisticsV6Request", "GetStatelessStatisticsV6")
      [] opNum = 119 -> Serve("EnumSubnetReservationsV4Request", "EnumSubnetReservationsV4")
      [] opNum = 120 -> Serve("GetFreeIPAddressV4Request", "GetFreeIPAddressV4")
      [] opNum = 121 -> Serve("GetFreeIPAddressV6Request", "GetFreeIPAddressV6")
      [] opNum = 122 -> Serve("CreateClientInfoV4Request", "CreateClientInfoV4")
      [] opNum = 123 -> Serve("GetClientInfoV4Request", "GetClientInfoV4")
      [] opNum = 124 -> Serve("CreateClientInfoV6Request", "CreateClientInfoV6")
      [] opNum = 125 -> Serve("FailoverGetAddressStatusV4Request", "FailoverGetAddressStatusV4")
      [] opNum = 126 -> Serve("CreatePolicyExV4Request", "CreatePolicyExV4")
      [] opNum = 127 -> Serve("GetPolicyExV4Request", "GetPolicyExV4")
      [] opNum = 128 -> Serve("SetPolicyExV4Request", "SetPolicyExV4")
      [] opNum = 129 -> Serve("EnumPoliciesExV4Request", "EnumPoliciesExV4")
      [] opNum = 130 -> Serve("EnumSubnetClientsExV4Request", "EnumSubnetClientsExV4")
      [] opNum = 131 -> Serve("CreateClientInfoExV4Request", "CreateClientInfoExV4")
      [] opNum = 132 -> Serve("GetClientInfoExV4Request", "GetClientInfoExV4")
      [] OTHER -> ReturnNilNil

\* type CatalogUtils2Server interface: the methods the interface declares itself, in
\* declaration order, each with the opnum its documentation states (Nil: none).
CatalogUtils2Server ==
    << [method |-> "CopyConglomerations", req |-> "CopyConglomerationsRequest", resp |-> "CopyConglomerationsResponse", doc |-> Nil],
       [method |-> "CopyComponentConfiguration", req |-> "CopyComponentConfigurationRequest", resp |-> "CopyComponentConfigurationResponse", doc |-> Nil],
       [method |-> "AliasComponent", req |-> "AliasComponentRequest", resp |-> "AliasComponentResponse", doc |-> Nil],
       [method |-> "MoveComponentConfiguration", req |-> "MoveComponentConfigurationRequest", resp |-> "MoveComponentConfigurationResponse", doc |-> Nil],
       [method |-> "GetEventClassesForIid2", req |-> "GetEventClassesForIid2Request", resp |-> "GetEventClassesForIid2Response", doc |-> Nil],
       [method |-> "IsSafeToDelete", req |-> "IsSafeToDeleteRequest", resp |-> "IsSafeToDeleteResponse", doc |-> Nil],
       [method |-> "FlushPartitionCache", req |-> "FlushPartitionCacheRequest", resp |-> "FlushPartitionCacheResponse", doc |-> Nil],
       [method |-> "EnumerateSRPLevels", req |-> "EnumerateSRPLevelsRequest", resp |-> "EnumerateSRPLevelsResponse", doc |-> Nil],
       [method |-> "GetComponentVersions", req |-> "GetComponentVersionsRequest", resp |-> "GetComponentVersionsResponse", doc |-> Nil] >>

\* func CatalogUtils2ServerHandle(ctx, o, opNum, r): the arm the switch selects.
CatalogUtils2ServerHandle(o, opNum, r) ==
    IF opNum < 3 THEN Delegate("iunknown.UnknownServerHandle")
    ELSE
    CASE opNum = 3 -> Serve("CopyConglomerationsRequest", "CopyConglomerations")
      [] opNum = 4 -> Serve("CopyComponentConfigurationRequest", "CopyComponentConfiguration")
      [] opNum = 5 -> Serve("AliasComponentRequest", "AliasComponent")
      [] opNum = 6 -> Serve("MoveComponentConfigurationRequest", "MoveComponentConfiguration")
      [] opNum = 7 -> Serve("GetEventClassesForIid2Request", "GetEventClassesForIid2")
      [] opNum = 8 -> Serve("IsSafeToDeleteRequest", "IsSafeToDelete")
      [] opNum = 9 -> Serve("FlushPartitionCacheRequest", "FlushPartitionCache")
      [] opNum = 10 -> Serve("EnumerateSRPLevelsRequest", "EnumerateSRPLevels")
      [] opNum = 11 -> Serve("GetComponentVersionsRequest", "GetComponentVersions")
      [] OTHER -> ReturnNilNil

\* type ServiceSANServer interface: the methods the interface declares itself, in
\* declaration order, each with the opnum its documentation states (Nil: none).
ServiceSANServer ==
    << [method |-> "GetSANPolicy", req |-> "GetSANPolicyRequest", resp |-> "GetSANPolicyResponse", doc |-> Nil],
       [method |-> "SetSANPolicy", req |-> "SetSANPolicyRequest", resp |-> "SetSANPolicyResponse", doc |-> Nil] >>

\* ServiceSANServerHandle handing only the opnums 0..2 to the base handler.
ServiceSANServerHandle_RangeChecked(o, opNum, r) ==
    IF opNum >= 0 /\ opNum < 3 THEN Delegate("iunknown.UnknownServerHandle")
    ELSE
    CASE opNum = 3 -> Serve("GetSANPolicyRequest", "GetSANPolicy")
      [] opNum = 4 -> Serve("SetSANPolicyRequest", "SetSANPolicy")
      [] OTHER -> ReturnNilNil

\* func ServiceSANServerHandle(ctx, o, opNum, r): the arm the switch selects.
ServiceSANServerHandle(o, opNum, r) ==
    IF opNum < 3 THEN Delegate("iunknown.UnknownServerHandle")
    ELSE
    CASE opNum = 3 -> Serve("GetSANPolicyRequest", "GetSANPolicy")
      [] opNum = 4 -> Serve("SetSANPolicyRequest", "SetSANPolicy")
      [] OTHER -> ReturnNilNil

\* type VDiskProviderServer interface: the methods the interface declares itself, in
\* declaration order, each with the opnum its documentation states (Nil: none).
VDiskProviderServer ==
    << [method |-> "QueryVDisks", req |-> "QueryVDisksRequest", resp |-> "QueryVDisksResponse", doc |-> Nil],
       [method |-> "CreateVDisk", req |-> "CreateVDiskRequest", resp |-> "CreateVDiskResponse", doc |-> Nil],
       [method |-> "AddVDisk", req |-> "AddVDiskRequest", resp |-> "AddVDiskResponse", doc |-> Nil],
       [method |-> "GetDiskFromVDisk", req |-> "GetDiskFromVDiskRequest", resp |-> "GetDiskFromVDiskResponse", doc |-> Nil],
       [method |-> "GetVDiskFromDisk", req |-> "GetVDiskFromDiskRequest", resp |-> "GetVDiskFromDiskResponse", doc |-> Nil] >>

\* func VDiskProviderServerHandle(ctx, o, opNum, r): the arm the switch selects.
VDiskProviderServerHandle(o, opNum, r) ==
    IF opNum < 3 THEN Delegate("iunknown.UnknownServerHandle")
    ELSE
    CASE opNum = 3 -> Serve("QueryVDisksRequest", "QueryVDisks")
      [] opNum = 4 -> Serve("CreateVDiskRequest", "CreateVDisk")
      [] opNum = 5 -> Serve("AddVDiskRequest", "AddVDisk")
      [] opNum = 6 -> Serve("GetDiskFromVDiskRequest", "GetDiskFromVDisk")
      [] opNum = 7 -> Serve("GetVDiskFromDiskRequest", "GetVDiskFromDisk")
      [] OTHER -> ReturnNilNil

\* type AppHostPropertyCollectionServer interface: the methods the interface declares itself, in
\* declaration order, each with the opnum its documentation states (Nil: none).
AppHostPropertyCollectionServer ==
    << [method |-> "GetCount", req |-> "GetCountRequest", resp |-> "GetCountResponse", doc |-> Nil],
       [method |-> "GetItem", req |-> "GetItemRequest", resp |-> "GetItemResponse", doc |-> Nil] >>

\* func AppHostPropertyCollectionServerHandle(ctx, o, opNum, r): the arm the switch selects.
AppHostPropertyCollectionServerHandle(o, opNum, r) ==
    IF opNum < 3 THEN Delegate("iunknown.UnknownServerHandle")
    ELSE
    CASE opNum = 3 -> Serve("GetCountRequest", "GetCount")
      [] opNum = 4 -> Serve("GetItemRequest", "GetItem")
      [] OTHER -> ReturnNilNil

\* type FileScreenTemplateServer interface: the methods the interface declares itself, in
\* declaration order, each with the opnum its documentation states (Nil: none).
FileScreenTemplateServer ==
    << [method |-> "GetName", req |-> "GetNameRequest", resp |-> "GetNameResponse", doc |-> Nil],
       [method |-> "SetName", req |-> "SetNameRequest", resp |-> "SetNameResponse", doc |-> Nil],
       [method |-> "CopyTemplate", req |-> "CopyTemplateRequest", resp |-> "CopyTemplateResponse", doc |-> Nil],
       [method |-> "CommitAndUpdateDerived", req |-> "CommitAndUpdateDerivedRequest", resp |-> "CommitAndUpdateDerivedResponse", doc |-> Nil] >>

\* FileScreenTemplateServerHandle with the base test one opnum too high: the
\* first own opnum goes to the base handler.
FileScreenTemplateServerHandle_HighThreshold(o, opNum, r) ==
    IF opNum < 19 THEN Delegate("ifsrmfilescreenbase.FileScreenBaseServerHandle")
    ELSE
    CASE opNum = 18 -> Serve("GetNameRequest", "GetName")
      [] opNum = 19 -> Serve("SetNameRequest", "SetName")
      [] opNum = 20 -> Serve("CopyTemplateRequest", "CopyTemplate")
      [] opNum = 21 -> Serve("CommitAndUpdateDerivedRequest", "CommitAndUpdateDerived")
      [] OTHER -> ReturnNilNil

\* func FileScreenTemplateServerHandle(ctx, o, opNum, r): the arm the switch selects.
FileScreenTemplateServerHandle(o, opNum, r) ==
    IF opNum < 18 THEN Delegate("ifsrmfilescreenbase.FileScreenBaseServerHandle")
    ELSE
    CASE opNum = 18 -> Serve("GetNameRequest", "GetName")
      [] opNum = 19 -> Serve("SetNameRequest", "SetName")
      [] opNum = 20 -> Serve("CopyTemplateRequest", "CopyTemplate")
      [] opNum = 21 -> Serve("CommitAndUpdateDerivedRequest", "CommitAndUpdateDerived")
      [] OTHER -> ReturnNilNil

\* type WAMAdminServer interface: the methods the interface declares itself, in
\* declaration order, each with the opnum its documentation states (Nil: none).
WAMAdminServer ==
    << [method |-> "AppCreate", req |-> "AppCreateRequest", resp |-> "AppCreateResponse", doc |-> <<3>>],
       [method |-> "AppDelete", req |-> "AppDeleteRequest", resp |-> "AppDeleteResponse", doc |-> <<4>>],
       [method |-> "AppUnload", req |-> "AppUnloadRequest", resp |-> "AppUnloadResponse", doc |-> <<5>>],
       [method |-> "AppGetStatus", req |-> "AppGetStatusRequest", resp |-> "AppGetStatusResponse", doc |-> <<6>>],
       [method |-> "AppDeleteRecoverable", req |-> "AppDeleteRecoverableRequest", resp |-> "AppDeleteRecoverableResponse", doc |-> <<7>>],
       [method |-> "AppRecover", req |-> "AppRecoverRequest", resp |-> "AppRecoverResponse", doc |-> <<8>>] >>

\* WAMAdminServerHandle with the arms of opnums 7 and 8 exchanged.
WAMAdminServerHandle_Swapped(o, opNum, r) ==
    IF opNum < 3 THEN Delegate("iunknown.UnknownServerHandle")
    ELSE
    CASE opNum = 3 -> Serve("AppCreateRequest", "AppCreate")
      [] opNum = 4 -> Serve("AppDeleteRequest", "AppDelete")
      [] opNum = 5 -> Serve("AppUnloadRequest", "AppUnload")
      [] opNum = 6 -> Serve("AppGetStatusRequest", "AppGetStatus")
      [] opNum = 7 -> Serve("AppRecoverRequest", "AppRecover")
      [] opNum = 8 -> Serve("AppDeleteRecoverableRequest", "AppDeleteRecoverable")
      [] OTHER -> ReturnNilNil

\* func WAMAdminServerHandle(ctx, o, opNum, r): the arm the switch selects.
WAMAdminServerHandle(o, opNum, r) ==
    IF opNum < 3 THEN Delegate("iunknown.UnknownServerHandle")
    ELSE
    CASE opNum = 3 -> Serve("AppCreateRequest", "AppCreate")
      [] opNum = 4 -> Serve("AppDeleteRequest", "AppDelete")
      [] opNum = 5 -> Serve("AppUnloadRequest", "AppUnload")
      [] opNum = 6 -> Serve("AppGetStatusRequest", "AppGetStatus")
      [] opNum = 7 -> Serve("AppDeleteRecoverableRequest", "AppDeleteRecoverable")
      [] opNum = 8 -> Serve("AppRecoverRequest", "AppRecover")
      [] OTHER -> ReturnNilNil

\* type DataFactory3Server interface: the methods the interface declares itself, in
\* declaration order, each with the opnum its documentation states (Nil: none).
DataFactory3Server ==
    << [method |-> "Execute", req |-> "ExecuteRequest", resp |-> "ExecuteResponse", doc |-> Nil],
       [method |-> "Synchronize", req |-> "SynchronizeRequest", resp |-> "SynchronizeResponse", doc |-> Nil] >>

\* func DataFactory3ServerHandle(ctx, o, opNum, r): the arm the switch selects.
DataFactory3ServerHandle(o, opNum, r) ==
    IF opNum < 9 THEN Delegate("idatafactory2.DataFactory2ServerHandle")
    ELSE
    CASE opNum = 9 -> Serve("ExecuteRequest", "Execute")
      [] opNum = 10 -> Serve("SynchronizeRequest", "Synchronize")
      [] OTHER -> ReturnNilNil

\* type AppHostPathMapperServer interface: the methods the interface declares itself, in
\* declaration order, each with the opnum its documentation states (Nil: none).
AppHostPathMapperServer ==
    << [method |-> "MapPath", req |-> "MapPathRequest", resp |-> "MapPathResponse", doc |-> Nil] >>

\* func AppHostPathMapperServerHandle(ctx, o, opNum, r): the arm the switch selects.
AppHostPathMapperServerHandle(o, opNum, r) ==
    IF opNum < 3 THEN Delegate("iunknown.UnknownServerHandle")
    ELSE
    CASE opNum = 3 -> Serve("MapPathRequest", "MapPath")
      [] OTHER -> ReturnNilNil

\* type AppHostElementCollectionServer interface: the methods the interface declares itself, in
\* declaration order, each with the opnum its documentation states (Nil: none).
AppHostElementCollectionServer ==
    << [method |-> "GetCount", req |-> "GetCountRequest", resp |-> "GetCountResponse", doc |-> Nil],
       [method |-> "GetItem", req |-> "GetItemRequest", resp |-> "GetItemResponse", doc |-> Nil],
       [method |-> "AddElement", req |-> "AddElementRequest", resp |-> "AddElementResponse", doc |-> Nil],
       [method |-> "DeleteElement", req |-> "DeleteElementRequest", resp |-> "DeleteElementResponse", doc |-> Nil],
       [method |-> "Clear", req |-> "ClearRequest", resp |-> "ClearResponse", doc |-> Nil],
       [method |-> "CreateNewElement", req |-> "CreateNewElementRequest", resp |-> "CreateNewElementResponse", doc |-> Nil],
       [method |-> "GetSchema", req |-> "GetSchemaRequest", resp |-> "GetSchemaResponse", doc |-> Nil] >>

\* AppHostElementCollectionServerHandle with the arm of opnum 8 repeated at opnum 9.
AppHostElementCollectionServerHandle_Duplicate(o, opNum, r) ==
    IF opNum < 3 THEN Delegate("iunknown.UnknownServerHandle")
    ELSE
    CASE opNum = 3 -> Serve("GetCountRequest", "GetCount")
      [] opNum = 4 -> Serve("GetItemRequest", "GetItem")
      [] opNum = 5 -> Serve("AddElementRequest", "AddElement")
      [] opNum = 6 -> Serve("DeleteElementRequest", "DeleteElement")
      [] opNum = 7 -> Serve("ClearRequest", "Clear")
      [] opNum = 8 -> Serve("CreateNewElementRequest", "CreateNewElement")
      [] opNum = 9 -> Serve("CreateNewElementRequest", "CreateNewElement")
      [] OTHER -> ReturnNilNil

\* func AppHostElementCollectionServerHandle(ctx, o, opNum, r): the arm the switch selects.
AppHostElementCollectionServerHandle(o, opNum, r) ==
    IF opNum < 3 THEN Delegate("iunknown.UnknownServerHandle")
    ELSE
    CASE opNum = 3 -> Serve("GetCountRequest", "GetCount")
      [] opNum = 4 -> Serve("GetItemRequest", "GetItem")
      [] opNum = 5 -> Serve("AddElementRequest", "AddElement")
      [] opNum = 6 -> Serve("DeleteElementRequest", "DeleteElement")
      [] opNum = 7 -> Serve("ClearRequest", "Clear")
      [] opNum = 8 -> Serve("CreateNewElementRequest", "CreateNewElement")
      [] opNum = 9 -> Serve("GetSchemaRequest", "GetSchema")
      [] OTHER -> ReturnNilNil

(***************************************************************************)
(* Server handles.  NewXServerHandle(o) returns a closure that keeps o and  *)
(* calls XServerHandle(ctx, o, opNum, r); the closure is modelled by the    *)
(* record of what it captured.                                              *)
(***************************************************************************)
NewWindowsShutdownServerHandle(o) == [fn |-> "WindowsShutdownServerHandle", o |-> o]

NewNspiServerHandle(o) == [fn |-> "NspiServerHandle", o |-> o]

NewDhcpsrv2ServerHandle(o) == [fn |-> "Dhcpsrv2ServerHandle", o |-> o]

NewCatalogUtils2ServerHandle(o) == [fn |-> "CatalogUtils2ServerHandle", o |-> o]

NewServiceSANServerHandle(o) == [fn |-> "ServiceSANServerHandle", o |-> o]

NewVDiskProviderServerHandle(o) == [fn |-> "VDiskProviderServerHandle", o |-> o]

NewAppHostPropertyCollectionServerHandle(o) == [fn |-> "AppHostPropertyCollectionServerHandle", o |-> o]

NewFileScreenTemplateServerHandle(o) == [fn |-> "FileScreenTemplateServerHandle", o |-> o]

NewWAMAdminServerHandle(o) == [fn |-> "WAMAdminServerHandle", o |-> o]

NewDataFactory3ServerHandle(o) == [fn |-> "DataFactory3ServerHandle", o |-> o]

NewAppHostPathMapperServerHandle(o) == [fn |-> "AppHostPathMapperServerHandle", o |-> o]

NewAppHostElementCollectionServerHandle(o) == [fn |-> "AppHostElementCollectionServerHandle", o |-> o]

NoHandle == [fn |-> "-", o |-> "-"]

\* Calling the closure h with (ctx, opNum, r).
ServerHandleCall(h, opNum, r) ==
    CASE h.fn = "WindowsShutdownServerHandle" -> WindowsShutdownServerHandle(h.o, opNum, r)
      [] h.fn = "NspiServerHandle" -> NspiServerHandle(h.o, opNum, r)
      [] h.fn = "Dhcpsrv2ServerHandle" -> Dhcpsrv2ServerHandle(h.o, opNum, r)
      [] h.fn = "CatalogUtils2ServerHandle" -> CatalogUtils2ServerHandle(h.o, opNum, r)
      [] h.fn = "ServiceSANServerHandle" -> ServiceSANServerHandle(h.o, opNum, r)
      [] h.fn = "VDiskProviderServerHandle" -> VDiskProviderServerHandle(h.o, opNum, r)
      [] h.fn = "AppHostPropertyCollectionServerHandle" -> AppHostPropertyCollectionServerHandle(h.o, opNum, r)
      [] h.fn = "FileScreenTemplateServerHandle" -> FileScreenTemplateServerHandle(h.o, opNum, r)
      [] h.fn = "WAMAdminServerHandle" -> WAMAdminServerHandle(h.o, opNum, r)
      [] h.fn = "DataFactory3ServerHandle" -> DataFactory3ServerHandle(h.o, opNum, r)
      [] h.fn = "AppHostPathMapperServerHandle" -> AppHostPathMapperServerHandle(h.o, opNum, r)
      [] h.fn = "AppHostElementCollectionServerHandle" -> AppHostElementCollectionServerHandle(h.o, opNum, r)

\* The interface the server object captured by h implements.
ServerInterface(h) ==
    CASE h.fn = "WindowsShutdownServerHandle" -> WindowsShutdownServer
      [] h.fn = "NspiServerHandle" -> NspiServer
      [] h.fn = "Dhcpsrv2ServerHandle" -> Dhcpsrv2Server
      [] h.fn = "CatalogUtils2ServerHandle" -> CatalogUtils2Server
      [] h.fn = "ServiceSANServerHandle" -> ServiceSANServer
      [] h.fn = "VDiskProviderServerHandle" -> VDiskProviderServer
      [] h.fn = "AppHostPropertyCollectionServerHandle" -> AppHostPropertyCollectionServer
      [] h.fn = "FileScreenTemplateServerHandle" -> FileScreenTemplateServer
      [] h.fn = "WAMAdminServerHandle" -> WAMAdminServer
      [] h.fn = "DataFactory3ServerHandle" -> DataFactory3Server
      [] h.fn = "AppHostPathMapperServerHandle" -> AppHostPathMapperServer
      [] h.fn = "AppHostElementCollectionServerHandle" -> AppHostElementCollectionServer

\* The opnum of the last case of the switch of h's dispatcher.
LastCase(h) ==
    CASE h.fn = "WindowsShutdownServerHandle" -> 1
      [] h.fn = "NspiServerHandle" -> 20
      [] h.fn = "Dhcpsrv2ServerHandle" -> 132
      [] h.fn = "CatalogUtils2ServerHandle" -> 11
      [] h.fn = "ServiceSANServerHandle" -> 4
      [] h.fn = "VDiskProviderServerHandle" -> 7
      [] h.fn = "AppHostPropertyCollectionServerHandle" -> 4
      [] h.fn = "FileScreenTemplateServerHandle" -> 21
      [] h.fn = "WAMAdminServerHandle" -> 8
      [] h.fn = "DataFactory3ServerHandle" -> 10
      [] h.fn = "AppHostPathMapperServerHandle" -> 3
      [] h.fn = "AppHostElementCollectionServerHandle" -> 9

\* The opnums of the modelled calls on h: from below 0 to beyond the last case.
OpNums(h) == (0 - OpSlack) .. (LastCase(h) + OpSlack)

Range(s) == {s[i] : i \in DOMAIN s}

\* The declaration of method m in the interface of h.
Declared(h, m) == CHOOSE e \in Range(ServerInterface(h)) : e.method = m

(***************************************************************************)
(* The calls the arms make.                                                 *)
(***************************************************************************)
\* in := &Request{}
NewRequest(req) == Ptr([type |-> req, args |-> "zero"])

\* in.UnmarshalNDR(ctx, r): fills the request from the reader, or fails.
UnmarshalNDR(in, r) ==
    IF r.data = "args"
    THEN [in  |-> Ptr([type |-> in[1].type, args |-> r.data]),
          r   |-> [r EXCEPT !.pos = 1],
          err |-> NoError]
    ELSE [in  |-> in,
          r   |-> [r EXCEPT !.pos = 1],
          err |-> IF r.data = "truncated" THEN "unexpected EOF"
                  ELSE "ndr: unmarshal failed"]

\* What o.Method(ctx, in) may return for the method m of h's interface: any
\* response of the declared type or nil, with any error.
HandlerReturns(h, m) ==
    { [resp |-> resp, err |-> err] :
        resp \in {Nil} \cup { Ptr([type |-> Declared(h, m).resp, Return |-> s]) :
                               s \in StatusCodes },
        err \in HandlerErrors }

\* resp.xxx_ToOp(ctx): the operation object carrying the response's fields; a
\* nil response gives the operation with zero fields.
xxx_ToOp(resp, m) ==
    Ptr([op |-> m, Return |-> IF resp = Nil THEN 0 ELSE resp[1].Return])

\* What the handler of the base interface may return, and whether it read r.
BaseReturns(base) ==
    { [op |-> op, err |-> err, pos |-> pos] :
        op \in {Nil, Ptr([op |-> base, Return |-> 0])},
        err \in {NoError, "base failed"},
        pos \in {0, 1} }

(***************************************************************************)
(* Frames.                                                                  *)
(***************************************************************************)
Event(ev, what, with) == [ev |-> ev, what |-> what, with |-> with]

Returned(op, err) == Ptr([op |-> op, err |-> err])

IdleFrame ==
    [pc |-> "idle", h |-> NoHandle, o |-> "-", opNum |-> 0, r |-> NewReader("-"),
     route |-> NoRoute, in |-> Nil, resp |-> Nil, err |-> NoError,
     ret |-> Nil, trace |-> << >>]

\* Enter signalling an opnum that matches no arm with an error of its own.
Enter_UnknownMethodError(h, opNum, r) ==
    LET route == ServerHandleCall(h, opNum, r)
        f == [IdleFrame EXCEPT !.h = h, !.o = h.o, !.opNum = opNum, !.r = r,
                               !.route = route]
    IN  CASE route.kind = "own" ->
               [f EXCEPT !.pc = "unmarshal", !.in = NewRequest(route.req),
                         !.trace = <<Event("select", route.method,
                                           NewRequest(route.req))>>]
          [] route.kind = "base" ->
               [f EXCEPT !.pc = "base"]
          [] OTHER ->
               [f EXCEPT !.pc = "done", !.ret = Returned(Nil, "unknown opnum")]

\* Enter going to the handler call with the request it has just allocated.
Enter_SkipDecode(h, opNum, r) ==
    LET route == ServerHandleCall(h, opNum, r)
        f == [IdleFrame EXCEPT !.h = h, !.o = h.o, !.opNum = opNum, !.r = r,
                               !.route = route]
    IN  CASE route.kind = "own" ->
               [f EXCEPT !.pc = "invoke", !.in = NewRequest(route.req),
                         !.trace = <<Event("select", route.method,
                                           NewRequest(route.req))>>]
          [] route.kind = "base" ->
               [f EXCEPT !.pc = "base"]
          [] OTHER ->
               [f EXCEPT !.pc = "done", !.ret = Returned(Nil, NoError)]

\* Enter passing to the dispatcher the server object of the handle registered
\* last (one variable shared by all handles), not the one h captured.
Enter_SharedServer(h, opNum, r) ==
    LET route == ServerHandleCall(h, opNum, r)
        f == [IdleFrame EXCEPT !.h = h, !.o = "o2", !.opNum = opNum, !.r = r,
                               !.route = route]
    IN  CASE route.kind = "own" ->
               [f EXCEPT !.pc = "unmarshal", !.in = NewRequest(route.req),
                         !.trace = <<Event("select", route.method,
                                           NewRequest(route.req))>>]
          [] route.kind = "base" ->
               [f EXCEPT !.pc = "base"]
          [] OTHER ->
               [f EXCEPT !.pc = "done", !.ret = Returned(Nil, NoError)]

\* The frame of a call of handle h with (ctx, opNum, r) once the dispatcher has
\* selected the arm:
\*   if opNum < first own opnum { return base ... }; switch opNum { case n: in := &Request{}
Enter(h, opNum, r) ==
    LET route == ServerHandleCall(h, opNum, r)
        f == [IdleFrame EXCEPT !.h = h, !.o = h.o, !.opNum = opNum, !.r = r,
                               !.route = route]
    IN  CASE route.kind = "own" ->
               [f EXCEPT !.pc = "unmarshal", !.in = NewRequest(route.req),
                         !.trace = <<Event("select", route.method,
                                           NewRequest(route.req))>>]
          [] route.kind = "base" ->
               [f EXCEPT !.pc = "base"]
          [] OTHER ->
               [f EXCEPT !.pc = "done", !.ret = Returned(Nil, NoError)]

\* The transport calls the registered handle h with an opnum and a reader.
Call(g, h, opNum, data) ==
    /\ frames[g].pc = "idle"
    /\ frames' = [frames EXCEPT ![g] = Enter(h, opNum, NewReader(data))]
    /\ UNCHANGED <<conn, last>>

\* Call, remembering what the call selected for the calls that follow.
CallKeep(g, h, opNum, data) ==
    /\ frames[g].pc = "idle"
    /\ frames' = [frames EXCEPT ![g] = Enter(h, opNum, NewReader(data))]
    /\ last' = Ptr([h |-> h, opNum |-> opNum, data |-> data,
                    route |-> frames'[g].route])
    /\ UNCHANGED conn

\* AfterUnmarshal without the early return: the error is dropped and the arm goes on.
AfterUnmarshal_NoEarlyReturn(f) ==
    LET u == UnmarshalNDR(f.in, f.r)
    IN  [f EXCEPT !.pc = "invoke", !.in = u.in, !.r = u.r,
                  !.trace = Append(@, Event("decode", u.err, u.in))]

\* AfterUnmarshal waiting for the rest of the arguments when the reader ends
\* early: the call stays at the decode until more data arrives.
AfterUnmarshal_WaitForData(f) ==
    LET u == UnmarshalNDR(f.in, f.r)
    IN  IF u.err = "unexpected EOF"
        THEN f
        ELSE IF u.err # NoError
        THEN [f EXCEPT !.pc = "done", !.in = u.in, !.r = u.r,
                       !.ret = Returned(Nil, u.err),
                       !.trace = Append(@, Event("decode", u.err, u.in))]
        ELSE [f EXCEPT !.pc = "invoke", !.in = u.in, !.r = u.r,
                       !.trace = Append(@, Event("decode", u.err, u.in))]

\* if err := in.UnmarshalNDR(ctx, r); err != nil { return nil, err }
AfterUnmarshal(f) ==
    LET u == UnmarshalNDR(f.in, f.r)
    IN  IF u.err # NoError
        THEN [f EXCEPT !.pc = "done", !.in = u.in, !.r = u.r,
                       !.ret = Returned(Nil, u.err),
                       !.trace = Append(@, Event("decode", u.err, u.in))]
        ELSE [f EXCEPT !.pc = "invoke", !.in = u.in, !.r = u.r,
                       !.trace = Append(@, Event("decode", u.err, u.in))]

\* Unmarshal with the request kept in one variable shared by all calls: what
\* one call decodes replaces the request of every call that has not used its own.
Unmarshal_SharedRequest(g) ==
    /\ frames[g].pc = "unmarshal"
    /\ frames' = [k \in DOMAIN frames |->
                     IF k = g THEN AfterUnmarshal(frames[g])
                     ELSE IF frames[k].pc \in {"unmarshal", "invoke"}
                          THEN [frames[k] EXCEPT !.in = AfterUnmarshal(frames[g]).in]
                          ELSE frames[k]]
    /\ UNCHANGED <<conn, last>>

Unmarshal(g) ==
    /\ frames[g].pc = "unmarshal"
    /\ frames' = [frames EXCEPT ![g] = AfterUnmarshal(frames[g])]
    /\ UNCHANGED <<conn, last>>

\* AfterInvoke calling the handler a second time when it returned an error.
AfterInvoke_Retry(f, out) ==
    [f EXCEPT !.pc = "return", !.resp = out.resp, !.err = out.err,
              !.trace = IF out.err # NoError
                        THEN @ \o << Event("invoke", f.route.method, f.in),
                                     Event("returned", out.err, out.resp),
                                     Event("invoke", f.route.method, f.in),
                                     Event("returned", out.err, out.resp) >>
                        ELSE @ \o << Event("invoke", f.route.method, f.in),
                                     Event("returned", out.err, out.resp) >>]

\* resp, err := o.Method(ctx, in), the handler returning out
AfterInvoke(f, out) ==
    [f EXCEPT !.pc = "return", !.resp = out.resp, !.err = out.err,
              !.trace = Append(Append(@, Event("invoke", f.route.method, f.in)),
                               Event("returned", out.err, out.resp))]

Invoke(g) ==
    /\ frames[g].pc = "invoke"
    /\ \E out \in HandlerReturns(frames[g].h, frames[g].route.method) :
           frames' = [frames EXCEPT ![g] = AfterInvoke(frames[g], out)]
    /\ UNCHANGED <<conn, last>>

\* AfterReturn returning a nil error whatever the handler returned.
AfterReturn_DropError(f) ==
    [f EXCEPT !.pc = "done",
              !.ret = Returned(xxx_ToOp(f.resp, f.route.method), NoError),
              !.trace = Append(@, Event("convert", f.route.method, f.resp))]

\* AfterReturn returning a nil operation when the handler returned an error.
AfterReturn_NilOnError(f) ==
    [f EXCEPT !.pc = "done",
              !.ret = IF f.err # NoError THEN Returned(Nil, f.err)
                      ELSE Returned(xxx_ToOp(f.resp, f.route.method), f.err),
              !.trace = Append(@, Event("convert", f.route.method, f.resp))]

\* AfterReturn reporting a nonzero status code of the response as an error when
\* the handler returned none.
AfterReturn_StatusAsError(f) ==
    [f EXCEPT !.pc = "done",
              !.ret = IF f.err = NoError /\ f.resp # Nil /\ f.resp[1].Return # 0
                      THEN Returned(xxx_ToOp(f.resp, f.route.method), "status code")
                      ELSE Returned(xxx_ToOp(f.resp, f.route.method), f.err),
              !.trace = Append(@, Event("convert", f.route.method, f.resp))]

\* AfterReturn returning a nil operation when the handler returned a nil response.
AfterReturn_NilResponse(f) ==
    [f EXCEPT !.pc = "done",
              !.ret = IF f.resp = Nil THEN Returned(Nil, f.err)
                      ELSE Returned(xxx_ToOp(f.resp, f.route.method), f.err),
              !.trace = Append(@, Event("convert", f.route.method, f.resp))]

\* return resp.xxx_ToOp(ctx), err
AfterReturn(f) ==
    [f EXCEPT !.pc = "done",
              !.ret = Returned(xxx_ToOp(f.resp, f.route.method), f.err),
              !.trace = Append(@, Event("convert", f.route.method, f.resp))]

Return(g) ==
    /\ frames[g].pc = "return"
    /\ frames' = [frames EXCEPT ![g] = AfterReturn(frames[g])]
    /\ UNCHANGED <<conn, last>>

\* AfterBase keeping the base handler's operation only when it returned no error.
AfterBase_NilOnError(f, out) ==
    [f EXCEPT !.pc = "done", !.r = [@ EXCEPT !.pos = out.pos],
              !.ret = IF out.err # NoError THEN Returned(Nil, out.err)
                      ELSE Returned(out.op, out.err),
              !.trace = @ \o << Event("base", f.route.base,
                                      Ptr([o |-> f.o, opNum |-> f.opNum, r |-> f.r])),
                                Event("based", out.err, out.op) >>]

\* return base.BaseServerHandle(ctx, o, opNum, r), the base handler returning out
AfterBase(f, out) ==
    [f EXCEPT !.pc = "done", !.r = [@ EXCEPT !.pos = out.pos],
              !.ret = Returned(out.op, out.err),
              !.trace = @ \o << Event("base", f.route.base,
                                      Ptr([o |-> f.o, opNum |-> f.opNum, r |-> f.r])),
                                Event("based", out.err, out.op) >>]

Base(g) ==
    /\ frames[g].pc = "base"
    /\ \E out \in BaseReturns(frames[g].route.base) :
           frames' = [frames EXCEPT ![g] = AfterBase(frames[g], out)]
    /\ UNCHANGED <<conn, last>>

\* The transport takes the result; the goroutine is free for the next call.
Finish(g) ==
    /\ frames[g].pc = "done"
    /\ frames' = [frames EXCEPT ![g] = IdleFrame]
    /\ UNCHANGED <<conn, last>>

(***************************************************************************)
(* Specifications.                                                          *)
(***************************************************************************)
\* RegisterXServer(conn, o): every dispatcher is registered with a server object.
AllHandles ==
    { NewWindowsShutdownServerHandle("o1"), NewNspiServerHandle("o1"),
      NewDhcpsrv2ServerHandle("o1"), NewCatalogUtils2ServerHandle("o1"),
      NewServiceSANServerHandle("o1"), NewVDiskProviderServerHandle("o1"),
      NewAppHostPropertyCollectionServerHandle("o1"),
      NewFileScreenTemplateServerHandle("o1"), NewWAMAdminServerHandle("o1"),
      NewDataFactory3ServerHandle("o1"), NewAppHostPathMapperServerHandle("o1"),
      NewAppHostElementCollectionServerHandle("o1") }

DoCall ==
    \E g \in DOMAIN frames : \E h \in conn : \E opNum \in OpNums(h) :
        \E data \in ReaderData : Call(g, h, opNum, data)

DoCallKeep ==
    \E g \in DOMAIN frames : \E h \in conn : \E opNum \in OpNums(h) :
        \E data \in ReaderData : CallKeep(g, h, opNum, data)

DoUnmarshal == \E g \in DOMAIN frames : Unmarshal(g)

DoInvoke == \E g \in DOMAIN frames : Invoke(g)

DoReturn == \E g \in DOMAIN frames : Return(g)

DoBase == \E g \in DOMAIN frames : Base(g)

DoFinish == \E g \in DOMAIN frames : Finish(g)

\* One goroutine serving calls on every dispatcher, one call after the other.
Init ==
    /\ conn = AllHandles
    /\ frames = [g \in {"g1"} |-> IdleFrame]
    /\ last = Nil

Next ==
    \/ DoCall
    \/ DoUnmarshal
    \/ DoInvoke
    \/ DoReturn
    \/ DoBase
    \/ DoFinish

Spec == Init /\ [][Next]_vars

\* The same, remembering across calls what the previous call selected.
NextSeq ==
    \/ DoCallKeep
    \/ DoUnmarshal
    \/ DoInvoke
    \/ DoReturn
    \/ DoBase
    \/ DoFinish

SpecSeq == Init /\ [][NextSeq]_vars

\* Two goroutines serving calls concurrently on two registered handles.
InitConc ==
    /\ conn = { NewWindowsShutdownServerHandle("o1"), NewServiceSANServerHandle("o2") }
    /\ frames = [g \in {"g1", "g2"} |-> IdleFrame]
    /\ last = Nil

SpecConc == InitConc /\ [][Next]_vars

\* Every dispatcher registered twice, for two server objects, served by one
\* goroutine.
InitObjects ==
    /\ conn = AllHandles \cup {[h EXCEPT !.o = "o2"] : h \in AllHandles}
    /\ frames = [g \in {"g1"} |-> IdleFrame]
    /\ last = Nil

SpecObjects == InitObjects /\ [][Next]_vars

\* Two goroutines serving calls, each call running on once started: the decode,
\* the handler and the base handler return when called, and the dispatcher
\* takes its own steps.  Nothing obliges the transport to start or collect a call.
Fairness ==
    \A g \in {"g1", "g2"} :
        /\ WF_vars(Unmarshal(g))
        /\ WF_vars(Invoke(g))
        /\ WF_vars(Return(g))
        /\ WF_vars(Base(g))

SpecLive == InitConc /\ [][Next]_vars /\ Fairness

(***************************************************************************)
(* Properties.                                                              *)
(***************************************************************************)
\* The positions of the events of kind ev in the trace of frame f.
EventsOf(f, ev) == {i \in DOMAIN f.trace : f.trace[i].ev = ev}

\* What decoding the request of frame f's arm from the reader it was called
\* with returns.
DecodeOf(f) == UnmarshalNDR(NewRequest(f.route.req), NewReader(f.r.data))

\* C1: when decoding the request of an own arm fails, the call is over with a
\* nil operation and exactly the error UnmarshalNDR returned, and no method of
\* the server has been invoked.
C1_DecodeFailure ==
    \A g \in DOMAIN frames :
        LET f == frames[g]
        IN  (f.route.kind = "own" /\ f.pc # "unmarshal" /\ DecodeOf(f).err # NoError)
            => /\ f.pc = "done"
               /\ f.ret = Returned(Nil, DecodeOf(f).err)
               /\ EventsOf(f, "invoke") = {}
               /\ EventsOf(f, "decode") = {Len(f.trace)}
               /\ f.trace[Len(f.trace)].what = DecodeOf(f).err

C1_Witness ==
    \E g \in DOMAIN frames :
        /\ frames[g].pc = "done"
        /\ frames[g].h.fn = "NspiServerHandle"
        /\ frames[g].opNum = 0
        /\ frames[g].r.data = "truncated"
        /\ frames[g].ret = Returned(Nil, "unexpected EOF")

\* C2: when decoding succeeded and the handler returned an error e, the error
\* the dispatcher returns is e itself.
C2_HandlerErrorVerbatim ==
    \A g \in DOMAIN frames :
        LET f == frames[g]
        IN  \A i \in EventsOf(f, "returned") :
                (f.pc = "done" /\ f.trace[i].what # NoError)
                => f.ret[1].err = f.trace[i].what

C2_Witness ==
    \E g \in DOMAIN frames :
        /\ frames[g].pc = "done"
        /\ frames[g].h.fn = "ServiceSANServerHandle"
        /\ frames[g].opNum = 3
        /\ \E i \in EventsOf(frames[g], "returned") :
               frames[g].trace[i].what = "access denied"
        /\ frames[g].ret[1].err = "access denied"

\* The first opnum beyond the interface of h, as the claim C3 gives it for four
\* of the dispatchers and as the last case of the switch gives it for all.
BeyondLast(h) ==
    CASE h.fn = "WindowsShutdownServerHandle" -> 2
      [] h.fn = "NspiServerHandle" -> 21
      [] h.fn = "Dhcpsrv2ServerHandle" -> 133
      [] h.fn = "VDiskProviderServerHandle" -> 8
      [] OTHER -> LastCase(h) + 1

\* C3: an opnum greater than the highest opnum of the interface returns
\* (nil, nil) at once: nothing is read from the reader, nothing is decoded, no
\* handler is invoked, the base handler is not called.
C3_UnknownOpnum ==
    \A g \in DOMAIN frames :
        LET f == frames[g]
        IN  (f.pc # "idle" /\ f.opNum >= BeyondLast(f.h))
            => /\ f.pc = "done"
               /\ f.ret = Returned(Nil, NoError)
               /\ f.r = NewReader(f.r.data)
               /\ f.in = Nil
               /\ f.trace = << >>

C3_Witness ==
    \E g \in DOMAIN frames :
        /\ frames[g].pc = "done"
        /\ frames[g].h.fn = "Dhcpsrv2ServerHandle"
        /\ frames[g].opNum = 133
        /\ frames[g].r.data = "args"
        /\ frames[g].ret = Returned(Nil, NoError)

\* C4 as stated: every finished call returned either a non-nil operation with
\* a nil error, or a nil operation with a non-nil error.
C4_TwoShapes ==
    \A g \in DOMAIN frames :
        LET f == frames[g]
        IN  f.pc = "done"
            => \/ f.ret[1].op # Nil /\ f.ret[1].err = NoError
               \/ f.ret[1].op = Nil /\ f.ret[1].err # NoError

\* C4, amended: a finished call of an opnum the dispatcher does not hand to
\* its base returned one of four shapes: (nil, nil) when no arm serves the
\* opnum; (nil, the decode error) when decoding failed; a non-nil operation
\* with a nil error when the handler returned no error; a non-nil operation
\* with the handler's non-nil error when the handler returned one.  A nil
\* operation with a non-nil error arises from a decode failure only.
C4_FourShapes ==
    \A g \in DOMAIN frames :
        LET f == frames[g]
            op == f.ret[1].op
            err == f.ret[1].err
        IN  (f.pc = "done" /\ f.route.kind # "base")
            => /\ \/ f.route.kind = "nil" /\ op = Nil /\ err = NoError
                  \/ /\ f.route.kind = "own" /\ DecodeOf(f).err # NoError
                     /\ op = Nil /\ err # NoError
                  \/ /\ f.route.kind = "own" /\ DecodeOf(f).err = NoError
                     /\ f.err = NoError /\ op # Nil /\ err = NoError
                  \/ /\ f.route.kind = "own" /\ DecodeOf(f).err = NoError
                     /\ f.err # NoError /\ op # Nil /\ err # NoError
               /\ (op = Nil /\ err # NoError)
                    => (f.route.kind = "own" /\ DecodeOf(f).err # NoError)

C4_Witness ==
    \E g \in DOMAIN frames :
        /\ frames[g].pc = "done"
        /\ frames[g].h.fn = "AppHostPropertyCollectionServerHandle"
        /\ frames[g].opNum = 4
        /\ frames[g].err = "handler failed"
        /\ frames[g].ret[1].op # Nil
        /\ frames[g].ret[1].err = "handler failed"

\* C5: a call invokes at most one method of the server at most once: once, the
\* method of the selected arm, when the opnum has an arm and decoding succeeded,
\* and never otherwise; a handler that returned an error is not invoked again;
\* the dispatcher touches the server object in no other way (a delegated call
\* passes it to the base handler once and invokes no own method).
C5_AtMostOneInvocation ==
    \A g \in DOMAIN frames :
        LET f == frames[g]
            inv == EventsOf(f, "invoke")
            served == f.route.kind = "own" /\ DecodeOf(f).err = NoError
        IN  /\ Cardinality(inv) <= 1
            /\ Cardinality(EventsOf(f, "returned")) = Cardinality(inv)
            /\ \A i \in inv :
                   /\ served
                   /\ f.trace[i].what = f.route.method
                   /\ \E e \in Range(ServerInterface(f.h)) : e.method = f.trace[i].what
            /\ f.pc = "done" => (Cardinality(inv) = 1 <=> served)
            /\ f.pc = "done" =>
                   Cardinality(EventsOf(f, "base")) =
                       IF f.route.kind = "base" THEN 1 ELSE 0
            /\ f.route.kind = "base" => inv = {}

C5_Witness ==
    \E g \in DOMAIN frames :
        /\ frames[g].pc = "done"
        /\ frames[g].h.fn = "VDiskProviderServerHandle"
        /\ frames[g].opNum = 5
        /\ frames[g].err = "handler failed"
        /\ Cardinality(EventsOf(frames[g], "invoke")) = 1
        /\ \A i \in EventsOf(frames[g], "invoke") : frames[g].trace[i].what = "AddVDisk"

\* C6: the steps of an arm happen in one order: the request type is selected,
\* the request is decoded from the reader, the handler is invoked with the
\* decoded request, and its response is converted once it has returned.  The
\* handler is never invoked before decoding has succeeded.
C6_StepOrder ==
    \A g \in DOMAIN frames :
        LET f == frames[g]
            decoded == Ptr([type |-> f.route.req, args |-> f.r.data])
        IN  /\ \A i \in EventsOf(f, "invoke") :
                   /\ i = 3
                   /\ f.trace[1] = Event("select", f.route.method, NewRequest(f.route.req))
                   /\ f.trace[2] = Event("decode", NoError, decoded)
                   /\ f.trace[3] = Event("invoke", f.route.method, decoded)
                   /\ f.r.pos = 1
            /\ \A i \in EventsOf(f, "convert") :
                   /\ i = 5
                   /\ 3 \in EventsOf(f, "invoke")
                   /\ f.trace[4] = Event("returned", f.err, f.resp)
                   /\ f.trace[5] = Event("convert", f.route.method, f.resp)
            /\ (f.pc = "done" /\ f.route.kind = "own" /\ DecodeOf(f).err = NoError)
                   => /\ Len(f.trace) = 5
                      /\ 5 \in EventsOf(f, "convert")
                      /\ f.ret = Returned(xxx_ToOp(f.resp, f.route.method), f.err)

C6_Witness ==
    \E g \in DOMAIN frames :
        /\ frames[g].pc = "done"
        /\ frames[g].h.fn = "CatalogUtils2ServerHandle"
        /\ frames[g].opNum = 3
        /\ Len(frames[g].trace) = 5
        /\ frames[g].trace[3] =
               Event("invoke", "CopyConglomerations",
                     Ptr([type |-> "CopyConglomerationsRequest", args |-> "args"]))
        /\ frames[g].resp # Nil

\* The methods frame f has invoked on the server.
Invoked(f) == {f.trace[i].what : i \in EventsOf(f, "invoke")}

\* C7: for every method of Dhcpsrv2Server documented with "The opnum field
\* value for this method is N", and for every opnum the documentation cites by
\* cross-reference, a call of Dhcpsrv2ServerHandle with opnum N whose request
\* decoded invoked exactly that method and no other.
C7_Dhcpsrv2DocumentedOpnums ==
    \A g \in DOMAIN frames :
        LET f == frames[g]
        IN  (f.h.fn = "Dhcpsrv2ServerHandle" /\ f.pc = "done" /\ f.r.data = "args")
            => \A e \in Range(Dhcpsrv2Server) \cup Range(Dhcpsrv2CrossRefs) :
                   e.doc = <<f.opNum>> => Invoked(f) = {e.method}

C7_Witness ==
    \E g \in DOMAIN frames :
        /\ frames[g].pc = "done"
        /\ frames[g].h.fn = "Dhcpsrv2ServerHandle"
        /\ frames[g].opNum = 130
        /\ frames[g].r.data = "args"
        /\ Declared(frames[g].h, "EnumSubnetClientsExV4").doc = <<130>>
        /\ Invoked(frames[g]) = {"EnumSubnetClientsExV4"}

\* The opnums of WAMAdminServer as the claim C8 lists them.
WAMAdminDocumented ==
    [n \in 3..8 |->
        CASE n = 3 -> "AppCreate"
          [] n = 4 -> "AppDelete"
          [] n = 5 -> "AppUnload"
          [] n = 6 -> "AppGetStatus"
          [] n = 7 -> "AppDeleteRecoverable"
          [] n = 8 -> "AppRecover"]

\* C8: the opnum the documentation of each WAMAdminServer method states is the
\* opnum WAMAdminServerHandle serves it at: a call with opnum N in 3..8 whose
\* request decoded invoked exactly the method documented with opnum N.
C8_WAMAdminDocumentedOpnums ==
    \A g \in DOMAIN frames :
        LET f == frames[g]
        IN  (f.h.fn = "WAMAdminServerHandle" /\ f.pc = "done" /\ f.r.data = "args"
                /\ f.opNum \in 3..8)
            => /\ Invoked(f) = {WAMAdminDocumented[f.opNum]}
               /\ \A e \in Range(WAMAdminServer) :
                      e.doc = <<f.opNum>> <=> e.method = WAMAdminDocumented[f.opNum]

C8_Witness ==
    \E g \in DOMAIN frames :
        /\ frames[g].pc = "done"
        /\ frames[g].h.fn = "WAMAdminServerHandle"
        /\ frames[g].opNum = 7
        /\ frames[g].r.data = "args"
        /\ Invoked(frames[g]) = {"AppDeleteRecoverable"}

\* What the dispatcher of h selects for opnum n.
ArmOf(h, n) == ServerHandleCall(h, n, NewReader("args"))

\* The methods the arms of h's dispatcher invoke.
Routed(h) == {ArmOf(h, n).method : n \in {k \in OpNums(h) : ArmOf(h, k).kind = "own"}}

\* C9: the opnum table of each dispatcher is fixed.  Whatever call came before
\* and whatever the reader holds, a call selects for the same opnum the same
\* request type and method as the previous call of the same dispatcher did,
\* and for another opnum another method; the arms of the dispatcher invoke
\* exactly the methods its interface declares itself, each from one arm.
C9_FixedTable ==
    /\ [][\A g \in DOMAIN frames :
             (/\ frames[g].pc = "idle" /\ frames'[g].pc # "idle"
              /\ last # Nil /\ last[1].h.fn = frames'[g].h.fn)
             => LET was == last[1]
                    now == frames'[g]
                IN  /\ was.opNum = now.opNum => was.route = now.route
                    /\ (/\ was.opNum # now.opNum
                        /\ was.route.kind = "own" /\ now.route.kind = "own")
                       => was.route.method # now.route.method]_vars
    /\ [](\A g \in DOMAIN frames :
             LET f == frames[g]
                 own == {k \in OpNums(f.h) : ArmOf(f.h, k).kind = "own"}
                 declared == {e.method : e \in Range(ServerInterface(f.h))}
             IN  f.pc \in {"unmarshal", "base"}
                 => /\ Routed(f.h) = declared
                    /\ Cardinality(own) = Cardinality(declared)
                    /\ Cardinality(declared) = Len(ServerInterface(f.h))
                    /\ f.route.kind = "own" =>
                          /\ f.route = ArmOf(f.h, f.opNum)
                          /\ f.route.req = Declared(f.h, f.route.method).req)

C9_Witness ==
    \E g \in DOMAIN frames :
        /\ frames[g].pc = "unmarshal"
        /\ frames[g].h.fn = "AppHostElementCollectionServerHandle"
        /\ frames[g].opNum = 9
        /\ frames[g].r.data = "malformed"
        /\ frames[g].route = Serve("GetSchemaRequest", "GetSchema")
        /\ last # Nil
        /\ last[1].h.fn = "AppHostElementCollectionServerHandle"
        /\ last[1].opNum = 9
        /\ last[1].data = "malformed"

\* The frame of a call that ran alone with the opnum, reader contents and
\* handler (or base handler) outcome of frame f, up to where f is.
Alone(f) ==
    LET e == Enter(f.h, f.opNum, NewReader(f.r.data))
        u == AfterUnmarshal(e)
        out == [resp |-> f.resp, err |-> f.err]
        bout == [op |-> f.ret[1].op, err |-> f.ret[1].err, pos |-> f.r.pos]
    IN  CASE f.pc = "idle" -> IdleFrame
          [] f.pc # "idle" /\ e.pc = "done" -> e
          [] f.pc # "idle" /\ e.pc = "base" ->
               IF f.pc = "base" THEN e ELSE AfterBase(e, bout)
          [] OTHER ->
               IF f.pc = "unmarshal" THEN e
               ELSE IF f.pc = "invoke" \/ u.pc = "done" THEN u
               ELSE IF f.pc = "return" THEN AfterInvoke(u, out)
               ELSE AfterReturn(AfterInvoke(u, out))

C11_StatusNotInterpreted ==
    \A g \in DOMAIN frames :
        LET f == frames[g]
        IN  (f.pc = "done" /\ EventsOf(f, "returned") # {})
            => /\ f.ret[1].err = f.err
               /\ f.ret[1].op = xxx_ToOp(f.resp, f.route.method)
               /\ \A i \in EventsOf(f, "returned") :
                      /\ f.trace[i].what = f.err
                      /\ f.trace[i].with = f.resp
               /\ (f.resp # Nil /\ f.resp[1].Return # 0 /\ f.err = NoError)
                    => f.ret[1].err = NoError
               /\ (f.resp # Nil /\ f.err # NoError)
                    => f.ret[1].op[1].Return = f.resp[1].Return

C11_Witness ==
    \E g \in DOMAIN frames :
        /\ frames[g].pc = "done"
        /\ frames[g].h.fn = "WindowsShutdownServerHandle"
        /\ frames[g].opNum = 0
        /\ frames[g].resp # Nil
        /\ frames[g].resp[1].Return = 5
        /\ frames[g].err = NoError
        /\ frames[g].ret[1].err = NoError
        /\ frames[g].ret[1].op = xxx_ToOp(frames[g].resp, "InitiateShutdown")

\* C12: opnum 15 of the NSPI dispatcher is reserved.  A call with it is over at
\* once with (nil, nil): the reader is untouched, no request is allocated or
\* decoded, no method is invoked; but for the opnum, the frame is the frame of a
\* call with an opnum beyond the last case.  NspiServer declares twenty methods
\* for the twenty-one opnums 0..20, and the arm of every other opnum in that
\* range serves one of them.
C12_NspiOpnum15Reserved ==
    /\ \A g \in DOMAIN frames :
           LET f == frames[g]
           IN  (f.pc # "idle" /\ f.h.fn = "NspiServerHandle" /\ f.opNum = 15)
               => /\ f.pc = "done"
                  /\ f.ret = Returned(Nil, NoError)
                  /\ f.r = NewReader(f.r.data)
                  /\ f.in = Nil
                  /\ f.trace = << >>
                  /\ f = [Enter(f.h, LastCase(f.h) + 1, NewReader(f.r.data))
                            EXCEPT !.opNum = 15]
    /\ Len(NspiServer) = 20
    /\ \A n \in 0 .. 20 :
           (NspiServerHandle("o1", n, NewReader("args")).kind = "own") <=> (n # 15)
    /\ \A e \in Range(NspiServer) :
           Cardinality({n \in 0 .. 20 :
               NspiServerHandle("o1", n, NewReader("args")).method = e.method}) = 1

C12_Witness ==
    \E g \in DOMAIN frames :
        /\ frames[g].pc = "done"
        /\ frames[g].h.fn = "NspiServerHandle"
        /\ frames[g].opNum = 15
        /\ frames[g].r = NewReader("args")
        /\ frames[g].ret = Returned(Nil, NoError)

\* The opnum at which NspiServerHandle serves the k-th method NspiServer declares
\* (k counted from 0), as C13 states it.
NspiOpnumOf(k) == IF k < 15 THEN k ELSE k + 1

\* C13: NspiServerHandle serves the k-th declared method, with its request type,
\* at opnum k for k < 15 and at opnum k + 1 for k >= 15 (opnums 16..20: QueryColumns,
\* GetNamesFromIDs, GetIDsFromNames, ResolveNames, ResolveNamesW), and a call
\* that reaches the handler with such an opnum invokes that method and no other.
C13_NspiRouting ==
    /\ \A k \in 0 .. (Len(NspiServer) - 1) :
           NspiServerHandle("o1", NspiOpnumOf(k), NewReader("args"))
             = Serve(NspiServer[k + 1].req, NspiServer[k + 1].method)
    /\ [k \in 15 .. 19 |-> NspiServer[k + 1].method]
         = [k \in 15 .. 19 |->
              CASE k = 15 -> "QueryColumns"
                [] k = 16 -> "GetNamesFromIDs"
                [] k = 17 -> "GetIDsFromNames"
                [] k = 18 -> "ResolveNames"
                [] k = 19 -> "ResolveNamesW"]
    /\ [k \in 0 .. 14 |-> NspiServer[k + 1].method]
         = [k \in 0 .. 14 |->
              CASE k = 0 -> "Bind"
                [] k = 1 -> "Unbind"
                [] k = 2 -> "UpdateStat"
                [] k = 3 -> "QueryRows"
                [] k = 4 -> "SeekEntries"
                [] k = 5 -> "GetMatches"
                [] k = 6 -> "ResortRestriction"
                [] k = 7 -> "DNToMID"
                [] k = 8 -> "GetPropertyList"
                [] k = 9 -> "GetProperties"
                [] k = 10 -> "CompareMIDs"
                [] k = 11 -> "ModifyProperties"
                [] k = 12 -> "GetSpecialTable"
                [] k = 13 -> "GetTemplateInfo"
                [] k = 14 -> "ModifyLinkAttribute"]
    /\ \A g \in DOMAIN frames :
           LET f == frames[g]
           IN  (f.h.fn = "NspiServerHandle" /\ EventsOf(f, "invoke") # {})
               => \E k \in 0 .. (Len(NspiServer) - 1) :
                      /\ f.opNum = NspiOpnumOf(k)
                      /\ Invoked(f) = {NspiServer[k + 1].method}
                      /\ f.in[1].type = NspiServer[k + 1].req

C13_Witness ==
    \E g \in DOMAIN frames :
        /\ frames[g].pc = "done"
        /\ frames[g].h.fn = "NspiServerHandle"
        /\ frames[g].opNum = 16
        /\ Invoked(frames[g]) = {"QueryColumns"}
        /\ frames[g].ret[1].op # Nil

\* The dispatchers of the interfaces derived directly from IUnknown.
UnknownDerived ==
    { "CatalogUtils2ServerHandle", "AppHostPropertyCollectionServerHandle",
      "AppHostPathMapperServerHandle", "AppHostElementCollectionServerHandle",
      "ServiceSANServerHandle", "VDiskProviderServerHandle", "WAMAdminServerHandle" }

\* C14: a call of a dispatcher of an interface derived directly from IUnknown
\* with an opnum in 0..2 is handed to iunknown.UnknownServerHandle, once, with
\* the server object of the handle, the same opnum and the reader as it was
\* passed in (nothing read, no request allocated); the call returns exactly the
\* (operation, error) pair the base handler returned, and no method of the
\* derived interface is invoked.
C14_UnknownDelegation ==
    \A g \in DOMAIN frames :
        LET f == frames[g]
        IN  (f.pc # "idle" /\ f.h.fn \in UnknownDerived /\ f.opNum \in 0 .. 2)
            => /\ f.route = Delegate("iunknown.UnknownServerHandle")
               /\ f.pc \in {"base", "done"}
               /\ f.in = Nil
               /\ EventsOf(f, "invoke") = {}
               /\ EventsOf(f, "decode") = {}
               /\ f.pc = "base" => (f.trace = << >> /\ f.r = NewReader(f.r.data))
               /\ f.pc = "done"
                    => /\ Len(f.trace) = 2
                       /\ f.trace[1] = Event("base", "iunknown.UnknownServerHandle",
                                             Ptr([o |-> f.h.o, opNum |-> f.opNum,
                                                  r |-> NewReader(f.r.data)]))
                       /\ f.trace[2].ev = "based"
                       /\ f.ret = Returned(f.trace[2].with, f.trace[2].what)

C14_Witness ==
    \E g \in DOMAIN frames :
        /\ frames[g].pc = "done"
        /\ frames[g].h.fn = "WAMAdminServerHandle"
        /\ frames[g].opNum = 2
        /\ frames[g].trace[2] = Event("based", "base failed",
                                      Ptr([op |-> "iunknown.UnknownServerHandle",
                                           Return |-> 0]))
        /\ frames[g].ret = Returned(Ptr([op |-> "iunknown.UnknownServerHandle",
                                         Return |-> 0]), "base failed")

\* The base handler and the own opnums C15 states for the two dispatchers of
\* interfaces derived from a base other than IUnknown.
NonUnknownDerived(h) ==
    CASE h.fn = "FileScreenTemplateServerHandle" ->
           [base |-> "ifsrmfilescreenbase.FileScreenBaseServerHandle",
            first |-> 18, last |-> 21]
      [] h.fn = "DataFactory3ServerHandle" ->
           [base |-> "idatafactory2.DataFactory2ServerHandle",
            first |-> 9, last |-> 10]

\* C15: FileScreenTemplateServerHandle hands every opnum below 18 to
\* FileScreenBaseServerHandle and serves 18..21 itself, DataFactory3ServerHandle
\* hands every opnum below 9 to DataFactory2ServerHandle and serves 9..10
\* itself: the own opnums start at the threshold and are contiguous, one per
\* declared method in declaration order.  Every call is handled in exactly one
\* of three ways: by the base handler, by one own method, or by the (nil, nil)
\* path that reads and invokes nothing.
C15_NonUnknownBase ==
    \A g \in DOMAIN frames :
        LET f == frames[g]
        IN  (f.pc # "idle" /\ f.h.fn \in {"FileScreenTemplateServerHandle",
                                          "DataFactory3ServerHandle"})
            => LET d == NonUnknownDerived(f.h)
                   own == ServerInterface(f.h)
                   viaBase == f.pc = "base" \/ EventsOf(f, "base") # {}
                   viaOwn == EventsOf(f, "select") # {}
                   viaNil == f.trace = << >> /\ f.ret = Returned(Nil, NoError)
                               /\ f.pc = "done"
               IN  /\ d.last - d.first + 1 = Len(own)
                   /\ d.last = LastCase(f.h)
                   /\ f.opNum < d.first
                        => (f.route = Delegate(d.base) /\ viaBase)
                   /\ f.opNum \in d.first .. d.last
                        => /\ f.route = Serve(own[f.opNum - d.first + 1].req,
                                              own[f.opNum - d.first + 1].method)
                           /\ viaOwn
                           /\ Invoked(f) \subseteq {own[f.opNum - d.first + 1].method}
                   /\ f.opNum > d.last
                        => (f.route = ReturnNilNil /\ viaNil)
                   /\ (viaBase /\ ~viaOwn /\ ~viaNil)
                        \/ (~viaBase /\ viaOwn /\ ~viaNil)
                        \/ (~viaBase /\ ~viaOwn /\ viaNil)

C15_Witness ==
    \E g \in DOMAIN frames :
        /\ frames[g].pc = "done"
        /\ frames[g].h.fn = "FileScreenTemplateServerHandle"
        /\ frames[g].opNum = 18
        /\ Invoked(frames[g]) = {"GetName"}
        /\ EventsOf(frames[g], "base") = {}
        /\ frames[g].ret[1].op # Nil

\* The dispatchers that have no base interface.
NonDCOM == {"WindowsShutdownServerHandle", "NspiServerHandle", "Dhcpsrv2ServerHandle"}

\* C16: a call with a negative opnum returns (nil, nil) at once, nothing read,
\* decoded or invoked, on the non-DCOM dispatchers; on every DCOM dispatcher it
\* is handed to the handler of the base interface (the one opnum 0 is handed
\* to), with the negative opnum and the untouched reader, and the call returns
\* what the base handler returned, which need not be (nil, nil).
C16_NegativeOpnum ==
    \A g \in DOMAIN frames :
        LET f == frames[g]
        IN  (f.pc # "idle" /\ f.opNum < 0)
            => IF f.h.fn \in NonDCOM
               THEN /\ f.pc = "done"
                    /\ f.route = ReturnNilNil
                    /\ f.ret = Returned(Nil, NoError)
                    /\ f.r = NewReader(f.r.data)
                    /\ f.in = Nil
                    /\ f.trace = << >>
               ELSE /\ f.route.kind = "base"
                    /\ f.route = ServerHandleCall(f.h, 0, NewReader(f.r.data))
                    /\ f.in = Nil
                    /\ EventsOf(f, "invoke") = {}
                    /\ f.pc \in {"base", "done"}
                    /\ f.pc = "done"
                         => /\ Len(f.trace) = 2
                            /\ f.trace[1] = Event("base", f.route.base,
                                                  Ptr([o |-> f.h.o, opNum |-> f.opNum,
                                                       r |-> NewReader(f.r.data)]))
                            /\ f.trace[2].ev = "based"
                            /\ f.ret = Returned(f.trace[2].with, f.trace[2].what)

C16_Witness ==
    \E g \in DOMAIN frames :
        /\ frames[g].pc = "done"
        /\ frames[g].h.fn = "ServiceSANServerHandle"
        /\ frames[g].opNum < 0
        /\ frames[g].trace[1].ev = "base"
        /\ frames[g].ret[1].op # Nil
        /\ frames[g].ret[1].err = NoError

DirectCall(h, opNum, r) ==
    (IF h = NewWindowsShutdownServerHandle(h.o)
          THEN {WindowsShutdownServerHandle(h.o, opNum, r)} ELSE {})
    \cup (IF h = NewNspiServerHandle(h.o)
          THEN {NspiServerHandle(h.o, opNum, r)} ELSE {})
    \cup (IF h = NewDhcpsrv2ServerHandle(h.o)
          THEN {Dhcpsrv2ServerHandle(h.o, opNum, r)} ELSE {})
    \cup (IF h = NewCatalogUtils2ServerHandle(h.o)
          THEN {CatalogUtils2ServerHandle(h.o, opNum, r)} ELSE {})
    \cup (IF h = NewServiceSANServerHandle(h.o)
          THEN {ServiceSANServerHandle(h.o, opNum, r)} ELSE {})
    \cup (IF h = NewVDiskProviderServerHandle(h.o)
          THEN {VDiskProviderServerHandle(h.o, opNum, r)} ELSE {})
    \cup (IF h = NewAppHostPropertyCollectionServerHandle(h.o)
          THEN {AppHostPropertyCollectionServerHandle(h.o, opNum, r)} ELSE {})
    \cup (IF h = NewFileScreenTemplateServerHandle(h.o)
          THEN {FileScreenTemplateServerHandle(h.o, opNum, r)} ELSE {})
    \cup (IF h = NewWAMAdminServerHandle(h.o)
          THEN {WAMAdminServerHandle(h.o, opNum, r)} ELSE {})
    \cup (IF h = NewDataFactory3ServerHandle(h.o)
          THEN {DataFactory3ServerHandle(h.o, opNum, r)} ELSE {})
    \cup (IF h = NewAppHostPathMapperServerHandle(h.o)
          THEN {AppHostPathMapperServerHandle(h.o, opNum, r)} ELSE {})
    \cup (IF h = NewAppHostElementCollectionServerHandle(h.o)
          THEN {AppHostElementCollectionServerHandle(h.o, opNum, r)} ELSE {})

Rank(pc) ==
    CASE pc = "idle" -> 0
      [] pc = "unmarshal" -> 1
      [] pc = "base" -> 1
      [] pc = "invoke" -> 2
      [] pc = "return" -> 3
      [] pc = "done" -> 4

\* C19: every call that has started ends with a result, given that the decode,
\* the handler and the base handler return.  A call has exactly one result,
\* set when it ends and not changed afterwards; every step of a call takes it
\* further into the dispatcher, none takes it back (no loop); a call makes at
\* most one decode, one handler invocation, one conversion and one call of the
\* base handler.
C19_Terminates ==
    /\ \A g \in {"g1", "g2"} : (frames[g].pc # "idle") ~> (frames[g].pc = "done")
    /\ [](\A g \in {"g1", "g2"} :
            LET f == frames[g]
            IN  /\ (f.pc = "done") <=> (f.ret # Nil)
                /\ Len(f.ret) <= 1
                /\ Cardinality(EventsOf(f, "decode")) <= 1
                /\ Cardinality(EventsOf(f, "invoke")) <= 1
                /\ Cardinality(EventsOf(f, "convert")) <= 1
                /\ Cardinality(EventsOf(f, "base")) <= 1)
    /\ [][\A g \in {"g1", "g2"} :
            frames'[g] # frames[g]
            => IF frames[g].pc = "done"
               THEN frames'[g] = IdleFrame
               ELSE /\ Rank(frames'[g].pc) > Rank(frames[g].pc)
                    /\ frames[g].ret = Nil]_vars

C19_Witness ==
    /\ frames["g1"].pc = "done"
    /\ frames["g1"].h.fn = "ServiceSANServerHandle"
    /\ frames["g1"].opNum = 4
    /\ Len(frames["g1"].trace) = 5
    /\ frames["g1"].ret[1].op # Nil
    /\ frames["g2"].pc = "done"
    /\ frames["g2"].h.fn = "ServiceSANServerHandle"
    /\ frames["g2"].opNum = 1
    /\ EventsOf(frames["g2"], "base") # {}

====
